---- MODULE Spec2Model ----
(***************************************************************************)
(* A model of cccc (clean-claude-code-config): the clean commands of the   *)
(* CLI (projects, orphans, config), the detectors and cleaners they call,  *)
(* the confirmation prompt and the audit log.                              *)
(*                                                                         *)
(* The filesystem is the record fs.  A run is either one invocation of the *)
(* CLI (pc starts at "start") or one call of an exported function of the   *)
(* packages claude, cleaner and ui (pc starts at "lib"), as the unit tests *)
(* make it.  While a confirmation prompt waits for its answer, other       *)
(* processes may change the filesystem (the Env actions).                  *)
(***************************************************************************)
EXTENDS Integers, Sequences, FiniteSets, TLC

VARIABLES
    fs,        \* the filesystem
    args,      \* the parsed command line (Args)
    stdin,     \* the unread characters of standard input
    stdout,    \* what was written to standard output, one token per message
    stderr,    \* what was written to standard error, one token per message
    pc,        \* the position of the running command
    phase,     \* the clean function that is running: projects, orphans, config
    loc,       \* the local variables of the running clean function
    ops,       \* history: the filesystem operations the program has attempted
    exitCode,  \* the exit status of the CLI once pc = "done"
    call,      \* the function under call and its arguments
    ret        \* the result of the call

vars == <<fs, args, stdin, stdout, stderr, pc, phase, loc, ops, exitCode, call, ret>>

(***************************************************************************)
(* Bounds of the model.                                                    *)
(***************************************************************************)
MaxInput == 4      \* longest input given to a direct call of Confirm
MaxList == 3       \* longest list given to a direct call of a detector or cleaner

(***************************************************************************)
(* Characters and strings.  A string that the program takes apart is a     *)
(* sequence of one-character strings.                                      *)
(***************************************************************************)
NL == "\n"

Alphabet == {"y", "Y", "e", "s", "n", " ", NL}

RECURSIVE StringsUpTo(_)
StringsUpTo(n) ==
    IF n = 0 THEN {<<>>}
    ELSE LET shorter == StringsUpTo(n - 1)
         IN  shorter \cup {Append(s, c) : s \in {t \in shorter : Len(t) = n - 1}, c \in Alphabet}

\* unicode.ToLower on the characters of the model
LowerChar(c) ==
    CASE c = "Y" -> "y"
      [] c = "E" -> "e"
      [] c = "S" -> "s"
      [] c = "N" -> "n"
      [] c = "O" -> "o"
      [] OTHER -> c

\* strings.ToLower
ToLower(s) == [i \in 1..Len(s) |-> LowerChar(s[i])]

\* unicode.IsSpace
IsSpace(c) == c \in {" ", NL, "\t", "\r"}

RECURSIVE TrimLeft(_)
TrimLeft(s) ==
    IF s # <<>> /\ IsSpace(Head(s)) THEN TrimLeft(Tail(s)) ELSE s

RECURSIVE TrimRight(_)
TrimRight(s) ==
    IF s # <<>> /\ IsSpace(s[Len(s)]) THEN TrimRight(SubSeq(s, 1, Len(s) - 1)) ELSE s

\* strings.TrimSpace
TrimSpace(s) == TrimRight(TrimLeft(s))

\* The index of the first delim in s, 0 when there is none
RECURSIVE IndexFrom(_, _, _)
IndexFrom(s, delim, i) ==
    IF i > Len(s) THEN 0
    ELSE IF s[i] = delim THEN i
    ELSE IndexFrom(s, delim, i + 1)

\* bufio.Reader.ReadString: the data up to and including the first delim; when
\* the input ends before a delim, all the data and the error io.EOF
ReadString(input, delim) ==
    LET i == IndexFrom(input, delim, 1)
    IN  IF i = 0 THEN [data |-> input, err |-> TRUE, used |-> Len(input)]
        ELSE [data |-> SubSeq(input, 1, i), err |-> FALSE, used |-> i]

\* A plausible bug: the read error is ignored and the partial line is used
ConfirmIgnoringEOF(input) ==
    LET r == ReadString(input, NL)
        s == TrimSpace(ToLower(r.data))
    IN  IF s = <<"y">> \/ s = <<"y", "e", "s">> THEN "ConfirmYes" ELSE "ConfirmNo"

\* Confirmer.Confirm, on the unread input
Confirm(input) ==
    LET r == ReadString(input, NL)
        s == TrimSpace(ToLower(r.data))
    IN  IF r.err THEN "ConfirmNo"
        ELSE IF s = <<"y">> \/ s = <<"y", "e", "s">> THEN "ConfirmYes"
        ELSE "ConfirmNo"

(***************************************************************************)
(* The filesystem.  A path is a triple of strings: the tree it lies in,    *)
(* the entry's name in that tree and, for a session file, the file's name  *)
(* in its project's storage directory.                                     *)
(***************************************************************************)
WorkPaths == {"/w1", "/w2"}          \* working directories that sessions refer to
EncodedNames == {"pa", "pb"}         \* storage directories under ~/.claude/projects
ProjectOrder == <<"pa", "pb">>       \* os.ReadDir lists entries sorted by name
SessionIds == {"s1", "s2"}

WorkP(w) == <<"work", w, "">>
StoreP(p) == <<"store", p, "">>
SessP(p, n) == <<"store", p, n>>
LsetP(w) == <<"lset", w, "">>

\* The lines of a session file: an empty line, a line that is no JSON, a
\* record, or (kind "long") a record too long for the scanner's buffer
Blank == [kind |-> "blank", cwd |-> "", id |-> "", ts |-> 0]
Bad == [kind |-> "bad", cwd |-> "", id |-> "", ts |-> 0]
Rec(cwd, id, ts) == [kind |-> "rec", cwd |-> cwd, id |-> id, ts |-> ts]

\* The bytes a line takes in its file
LineBytes(l) == CASE l.kind = "blank" -> 1 [] l.kind = "bad" -> 2 [] OTHER -> 3

RECURSIVE SumBytes(_, _)
SumBytes(lines, i) ==
    IF i > Len(lines) THEN 0 ELSE LineBytes(lines[i]) + SumBytes(lines, i + 1)

\* os.FileInfo.Size of a session file
FileSize(file) == SumBytes(file.lines, 1)

NoDir == [exists |-> FALSE, files |-> <<>>]
Dir(files) == [exists |-> TRUE, files |-> files]

\* The entries of ~/.claude/todos, ~/.claude/file-history and
\* ~/.claude/session-env: a todo entry is a file of some size or a directory,
\* a file-history entry is a directory with the sizes of the files below it
\* or a plain file, a session-env entry is a directory with some entries
NoTodo == [exists |-> FALSE, size |-> 0, isDir |-> FALSE]
TodoFile(n) == [exists |-> TRUE, size |-> n, isDir |-> FALSE]
TodoDir == [exists |-> TRUE, size |-> 0, isDir |-> TRUE]
NoHist == [exists |-> FALSE, sizes |-> <<>>, isDir |-> FALSE]
HistDir(sizes) == [exists |-> TRUE, sizes |-> sizes, isDir |-> TRUE]
HistFile(n) == [exists |-> TRUE, sizes |-> <<n>>, isDir |-> FALSE]
NoEnv == [exists |-> FALSE, entries |-> 0]

\* os.Stat: "dir" or "file" for an entry, "notexist" for none, "error" when
\* the path cannot be examined (a parent directory that may not be searched)
Stat(f, path) ==
    IF path \in f.denied THEN "error"
    ELSE CASE path[1] = "work" ->
                IF f.work[path[2]] THEN "dir" ELSE "notexist"
           [] path[1] = "store" /\ path[3] = "" ->
                IF f.projectsDir /\ f.store[path[2]].exists THEN "dir" ELSE "notexist"
           [] path[1] = "store" /\ path[3] # "" ->
                IF /\ f.projectsDir
                   /\ f.store[path[2]].exists
                   /\ \E i \in 1..Len(f.store[path[2]].files) :
                          f.store[path[2]].files[i].name = path[3]
                THEN "file" ELSE "notexist"
           [] path[1] = "todo" ->
                IF ~f.todos[path[2]].exists THEN "notexist"
                ELSE IF f.todos[path[2]].isDir THEN "dir" ELSE "file"
           [] path[1] = "hist" ->
                IF ~f.hist[path[2]].exists THEN "notexist"
                ELSE IF f.hist[path[2]].isDir THEN "dir" ELSE "file"
           [] path[1] = "env" ->
                IF f.env[path[2]].exists THEN "dir" ELSE "notexist"
           [] path[1] = "lset" ->
                IF f.work[path[2]] /\ f.lset[path[2]].state # "absent"
                THEN "file" ELSE "notexist"
           [] OTHER -> "notexist"

\* os.IsNotExist(err) of a Stat
IsNotExist(st) == st = "notexist"

\* The filesystem without the entry at path (and, for a directory, all below it)
Without(f, path) ==
    CASE path[1] = "work" ->
            [f EXCEPT !.work[path[2]] = FALSE]
      [] path[1] = "store" /\ path[3] = "" ->
            [f EXCEPT !.store[path[2]] = NoDir]
      [] path[1] = "store" /\ path[3] # "" ->
            [f EXCEPT !.store[path[2]].files =
                SelectSeq(@, LAMBDA file : file.name # path[3])]
      [] path[1] = "todo" ->
            [f EXCEPT !.todos[path[2]] = NoTodo]
      [] path[1] = "hist" ->
            [f EXCEPT !.hist[path[2]] = NoHist]
      [] path[1] = "env" ->
            [f EXCEPT !.env[path[2]] = NoEnv]
      [] path[1] = "lset" ->
            [f EXCEPT !.lset[path[2]].state = "absent"]
      [] OTHER -> f

\* os.RemoveAll and os.Remove: the removal fails on a path that is locked
\* (permission denied) and leaves the filesystem as it was; removing what
\* does not exist is no error for RemoveAll
RemoveAll(f, path) ==
    IF path \in f.locked THEN [ok |-> FALSE, fs |-> f]
    ELSE [ok |-> TRUE, fs |-> Without(f, path)]

Remove(f, path) ==
    IF path \in f.locked \/ Stat(f, path) \in {"notexist", "error"}
    THEN [ok |-> FALSE, fs |-> f]
    ELSE [ok |-> TRUE, fs |-> Without(f, path)]

(***************************************************************************)
(* package claude: session files and projects                              *)
(***************************************************************************)
NoInfo == [ID |-> "", CWD |-> "", Timestamp |-> 0, Size |-> 0, IsEmpty |-> FALSE]

RECURSIVE ParseLinesSkippingBad(_, _, _)
\* A plausible bug: a line that does not parse is skipped
ParseLinesSkippingBad(lines, i, size) ==
    IF i > Len(lines) THEN [err |-> "ErrNoCWD", info |-> NoInfo]
    ELSE IF lines[i].kind \in {"blank", "bad"} THEN ParseLinesSkippingBad(lines, i + 1, size)
    ELSE IF lines[i].kind = "long" THEN [err |-> "scan", info |-> NoInfo]
    ELSE IF lines[i].cwd # ""
         THEN [err |-> "none",
               info |-> [ID |-> lines[i].id, CWD |-> lines[i].cwd,
                         Timestamp |-> lines[i].ts, Size |-> size, IsEmpty |-> FALSE]]
    ELSE ParseLinesSkippingBad(lines, i + 1, size)

RECURSIVE ParseLines(_, _, _)
ParseLines(lines, i, size) ==
    IF i > Len(lines) THEN [err |-> "ErrNoCWD", info |-> NoInfo]
    ELSE IF lines[i].kind = "blank" THEN ParseLines(lines, i + 1, size)
    ELSE IF lines[i].kind = "bad" THEN [err |-> "parse", info |-> NoInfo]
    ELSE IF lines[i].kind = "long" THEN [err |-> "scan", info |-> NoInfo]
    ELSE IF lines[i].cwd # ""
         THEN [err |-> "none",
               info |-> [ID |-> lines[i].id, CWD |-> lines[i].cwd,
                         Timestamp |-> lines[i].ts, Size |-> size, IsEmpty |-> FALSE]]
    ELSE ParseLines(lines, i + 1, size)

\* ParseSessionFile, on a file that exists: the scan ends with the error of
\* bufio.Scanner at a line longer than its buffer
ParseSessionFile(file) ==
    IF FileSize(file) = 0
    THEN [err |-> "none", info |-> [NoInfo EXCEPT !.IsEmpty = TRUE]]
    ELSE ParseLines(file.lines, 1, FileSize(file))

NewProject(name) ==
    [EncodedName |-> name, ActualPath |-> "", SessionIDs |-> <<>>,
     TotalSize |-> 0, LastUsed |-> 0, FileCount |-> 0]

\* A plausible bug: each session file overwrites the project's path
ScanFileLastWins(project, file) ==
    LET r == ParseSessionFile(file)
        info == r.info
        counted == [project EXCEPT !.FileCount = @ + 1, !.TotalSize = @ + info.Size]
    IN  IF r.err # "none" THEN project
        ELSE IF info.IsEmpty THEN counted
        ELSE [counted EXCEPT
                !.ActualPath = info.CWD,
                !.SessionIDs = IF info.ID # "" THEN Append(@, info.ID) ELSE @,
                !.LastUsed = IF info.Timestamp > @ THEN info.Timestamp ELSE @]

\* The body of ScanProjects' inner loop for one session file
ScanFile(project, file) ==
    LET r == ParseSessionFile(file)
        info == r.info
        counted == [project EXCEPT !.FileCount = @ + 1, !.TotalSize = @ + info.Size]
    IN  IF r.err # "none" THEN project
        ELSE IF info.IsEmpty THEN counted
        ELSE [counted EXCEPT
                !.ActualPath = IF @ = "" THEN info.CWD ELSE @,
                !.SessionIDs = IF info.ID # "" THEN Append(@, info.ID) ELSE @,
                !.LastUsed = IF info.Timestamp > @ THEN info.Timestamp ELSE @]

RECURSIVE ScanFiles(_, _, _)
ScanFiles(project, files, i) ==
    IF i > Len(files) THEN project
    ELSE ScanFiles(ScanFile(project, files[i]), files, i + 1)

RECURSIVE ScanDirs(_, _)
ScanDirs(f, i) ==
    IF i > Len(ProjectOrder) THEN <<>>
    ELSE LET name == ProjectOrder[i]
         IN  IF f.store[name].exists
             THEN <<ScanFiles(NewProject(name), f.store[name].files, 1)>> \o ScanDirs(f, i + 1)
             ELSE ScanDirs(f, i + 1)

\* ScanProjects: the error of os.ReadDir when the projects directory is missing
ScanProjects(f) ==
    IF ~f.projectsDir THEN [err |-> TRUE, projects |-> <<>>]
    ELSE [err |-> FALSE, projects |-> ScanDirs(f, 1)]

\* Project.Exists
Exists(p, f) ==
    IF p.ActualPath = "" THEN FALSE
    ELSE Stat(f, WorkP(p.ActualPath)) \in {"dir", "file"}

(***************************************************************************)
(* package cleaner: stale projects                                         *)
(***************************************************************************)
RECURSIVE FindStaleExisting(_, _)
\* A plausible bug: the test is inverted
FindStaleExisting(projects, f) ==
    IF projects = <<>> THEN <<>>
    ELSE (IF Exists(Head(projects), f) THEN <<Head(projects)>> ELSE <<>>)
            \o FindStaleExisting(Tail(projects), f)

RECURSIVE FindStaleProjects(_, _)
FindStaleProjects(projects, f) ==
    IF projects = <<>> THEN <<>>
    ELSE (IF ~Exists(Head(projects), f) THEN <<Head(projects)>> ELSE <<>>)
            \o FindStaleProjects(Tail(projects), f)

\* CleanStaleProject: the result, the filesystem it leaves and whether it
\* attempted a removal
CleanStaleProject(f, project, dryRun) ==
    LET path == StoreP(project.EncodedName)
        rm == RemoveAll(f, path)
    IN  IF IsNotExist(Stat(f, path))
        THEN [err |-> FALSE, SizeSaved |-> 0, FilesRemoved |-> 0, fs |-> f, acted |-> FALSE]
        ELSE IF dryRun
        THEN [err |-> FALSE, SizeSaved |-> project.TotalSize,
              FilesRemoved |-> project.FileCount, fs |-> f, acted |-> FALSE]
        ELSE IF ~rm.ok
        THEN [err |-> TRUE, SizeSaved |-> 0, FilesRemoved |-> 0, fs |-> f, acted |-> TRUE]
        ELSE [err |-> FALSE, SizeSaved |-> project.TotalSize,
              FilesRemoved |-> project.FileCount, fs |-> rm.fs, acted |-> TRUE]

\* A change of a preview; the path of a project is its ActualPath
Change(action, path, size) == [Action |-> action, Path |-> path, Size |-> size]

RECURSIVE ChangesOf(_, _)
ChangesOf(projects, action) ==
    IF projects = <<>> THEN <<>>
    ELSE <<Change(action, WorkP(Head(projects).ActualPath), Head(projects).TotalSize)>>
            \o ChangesOf(Tail(projects), action)

\* A plausible bug: the two lists are taken for each other
BuildStalePreviewSwapped(staleProjects, keptProjects) ==
    [Title |-> "Stale Project Cleanup",
     Changes |-> ChangesOf(keptProjects, "DELETE"),
     Kept |-> ChangesOf(staleProjects, "")]

\* BuildStalePreview (the descriptions are left out)
BuildStalePreview(staleProjects, keptProjects) ==
    [Title |-> "Stale Project Cleanup",
     Changes |-> ChangesOf(staleProjects, "DELETE"),
     Kept |-> ChangesOf(keptProjects, "")]

(***************************************************************************)
(* package cleaner: orphans                                                *)
(***************************************************************************)
\* The entries of ~/.claude/todos, in the order of their names (os.ReadDir
\* sorts by name); the clean commands of the model meet the first three
TodoIds == {"t1", "t2", "t3", "t4", "t5", "t6", "t7", "t8"}
CliTodoIds == {"t1", "t2", "t3"}
TodoOrder == <<"t4", "t3", "t1", "t5", "t2", "t6", "t8", "t7">>
\* The entries of ~/.claude/file-history; the clean commands meet s1 and s9
HistIds == {"s1", "s8", "s9"}
CliHistIds == {"s1", "s9"}
HistOrder == <<"s1", "s8", "s9">>
EnvIds == {"s1", "s9"}               \* the directories of ~/.claude/session-env
EnvOrder == <<"s1", "s9">>

\* The characters of "-agent-", ".json" and of the names of the todo entries
AgentToken == <<"-", "a", "g", "e", "n", "t", "-">>
JsonSuffix == <<".", "j", "s", "o", "n">>
TodoName ==
    [t \in TodoIds |->
        CASE t = "t1" -> <<"s", "1">> \o AgentToken \o <<"a">> \o JsonSuffix
          [] t = "t2" -> <<"s", "9">> \o AgentToken \o <<"a">> \o JsonSuffix
          [] t = "t3" -> <<"n", ".", "t", "x", "t">>
          [] t = "t4" -> AgentToken \o <<"a">> \o JsonSuffix
          [] t = "t5" -> <<"s", "1">> \o AgentToken \o <<"s", "9">> \o AgentToken
                            \o <<"a">> \o JsonSuffix
          [] t = "t6" -> <<"s", "9">> \o AgentToken \o <<"a">> \o JsonSuffix
                            \o <<".", "b", "a", "k">>
          [] t = "t7" -> <<"s", "9">> \o JsonSuffix
          [] OTHER -> <<"s", "9">> \o AgentToken \o <<"d">> \o JsonSuffix]

TodoP(t) == <<"todo", t, "">>
HistP(s) == <<"hist", s, "">>
EnvP(s) == <<"env", s, "">>

Orphan(type, path, size) == [Type |-> type, Path |-> path, SizeSaved |-> size]

RECURSIVE JoinTokens(_)
JoinTokens(tokens) ==
    IF tokens = <<>> THEN "" ELSE Head(tokens) \o JoinTokens(Tail(tokens))

\* strings.HasSuffix
HasSuffix(str, suffix) ==
    Len(str) >= Len(suffix)
        /\ SubSeq(str, Len(str) - Len(suffix) + 1, Len(str)) = suffix

RECURSIVE IndexOfFrom(_, _, _)
\* strings.Index, counted from 1: the place of the first occurrence of
\* substr in str at or after i, 0 when there is none
IndexOfFrom(str, substr, i) ==
    IF i + Len(substr) - 1 > Len(str) THEN 0
    ELSE IF SubSeq(str, i, i + Len(substr) - 1) = substr THEN i
    ELSE IndexOfFrom(str, substr, i + 1)

\* A plausible bug: the last occurrence of the token is taken
extractSessionIDByLastToken(filename) ==
    IF ~HasSuffix(filename, JsonSuffix) THEN ""
    ELSE LET name == SubSeq(filename, 1, Len(filename) - Len(JsonSuffix))
             found == {i \in 1..Len(name) : IndexOfFrom(name, AgentToken, i) = i}
             idx == IF found = {} THEN 0
                    ELSE CHOOSE i \in found : \A k \in found : k <= i
         IN  IF idx = 0 THEN "" ELSE JoinTokens(SubSeq(name, 1, idx - 1))

\* extractSessionIDFromTodoFilename
extractSessionIDFromTodoFilename(filename) ==
    IF ~HasSuffix(filename, JsonSuffix) THEN ""
    ELSE LET name == SubSeq(filename, 1, Len(filename) - Len(JsonSuffix))
             idx == IndexOfFrom(name, AgentToken, 1)
         IN  IF idx = 0 THEN "" ELSE JoinTokens(SubSeq(name, 1, idx - 1))

RECURSIVE EmptyFilesOf(_, _, _)
EmptyFilesOf(name, files, i) ==
    IF i > Len(files) THEN <<>>
    ELSE (IF FileSize(files[i]) = 0
          THEN <<Orphan("empty_session", SessP(name, files[i].name), 0)>>
          ELSE <<>>) \o EmptyFilesOf(name, files, i + 1)

RECURSIVE EmptySessionsFrom(_, _)
EmptySessionsFrom(f, i) ==
    IF i > Len(ProjectOrder) THEN <<>>
    ELSE LET name == ProjectOrder[i]
         IN  (IF f.store[name].exists
              THEN EmptyFilesOf(name, f.store[name].files, 1)
              ELSE <<>>) \o EmptySessionsFrom(f, i + 1)

\* findEmptySessions
findEmptySessions(f) ==
    IF ~f.projectsDir THEN <<>> ELSE EmptySessionsFrom(f, 1)

RECURSIVE findOrphanTodosFrom(_, _, _)
findOrphanTodosFrom(f, validIDs, i) ==
    IF i > Len(TodoOrder) THEN <<>>
    ELSE LET t == TodoOrder[i]
             sessionID == extractSessionIDFromTodoFilename(TodoName[t])
         IN  (IF /\ f.todos[t].exists
                 /\ ~f.todos[t].isDir
                 /\ sessionID # ""
                 /\ sessionID \notin validIDs
                 /\ TodoP(t) \notin f.denied       \* entry.Info() fails: skipped
              THEN <<Orphan("todo", TodoP(t), f.todos[t].size)>>
              ELSE <<>>) \o findOrphanTodosFrom(f, validIDs, i + 1)

\* findOrphanTodos
findOrphanTodos(f, validIDs) == findOrphanTodosFrom(f, validIDs, 1)

RECURSIVE SumSeq(_)
SumSeq(sizes) == IF sizes = <<>> THEN 0 ELSE Head(sizes) + SumSeq(Tail(sizes))

\* dirSize of a file-history directory: the sizes of the files below it;
\* the walk fails on a directory that cannot be examined
dirSize(f, s) ==
    IF HistP(s) \in f.denied THEN [err |-> TRUE, size |-> 0]
    ELSE [err |-> FALSE, size |-> SumSeq(f.hist[s].sizes)]

\* A plausible bug: every sub-directory is reported, the known sessions' too
findOrphanFileHistoryAll(f, validIDs) ==
    LET dirs == SelectSeq(HistOrder, LAMBDA s : f.hist[s].exists /\ f.hist[s].isDir
                                                   /\ ~dirSize(f, s).err)
    IN  [i \in 1..Len(dirs) |->
            [Type |-> "file_history", Path |-> HistP(dirs[i]),
             SizeSaved |-> dirSize(f, dirs[i]).size]]

RECURSIVE findOrphanFileHistoryFrom(_, _, _)
findOrphanFileHistoryFrom(f, validIDs, i) ==
    IF i > Len(HistOrder) THEN <<>>
    ELSE LET s == HistOrder[i]
         IN  (IF /\ f.hist[s].exists
                 /\ f.hist[s].isDir
                 /\ s \notin validIDs
                 /\ ~dirSize(f, s).err               \* dirSize fails: skipped
              THEN <<Orphan("file_history", HistP(s), dirSize(f, s).size)>>
              ELSE <<>>) \o findOrphanFileHistoryFrom(f, validIDs, i + 1)

\* findOrphanFileHistory
findOrphanFileHistory(f, validIDs) == findOrphanFileHistoryFrom(f, validIDs, 1)

\* isDirEmpty of a session-env directory: os.ReadDir fails on a directory
\* that cannot be examined
isDirEmpty(f, s) ==
    IF EnvP(s) \in f.denied THEN [err |-> TRUE, empty |-> FALSE]
    ELSE [err |-> FALSE, empty |-> f.env[s].entries = 0]

\* A plausible bug: every sub-directory is reported, those with content too
findEmptySessionEnvAll(f) ==
    LET dirs == SelectSeq(EnvOrder, LAMBDA s : f.env[s].exists /\ ~isDirEmpty(f, s).err)
    IN  [i \in 1..Len(dirs) |->
            [Type |-> "session_env", Path |-> EnvP(dirs[i]), SizeSaved |-> 0]]

RECURSIVE findEmptySessionEnvFrom(_, _)
findEmptySessionEnvFrom(f, i) ==
    IF i > Len(EnvOrder) THEN <<>>
    ELSE LET s == EnvOrder[i]
             r == isDirEmpty(f, s)
         IN  (IF f.env[s].exists /\ ~r.err /\ r.empty   \* isDirEmpty fails: skipped
              THEN <<Orphan("session_env", EnvP(s), 0)>>
              ELSE <<>>) \o findEmptySessionEnvFrom(f, i + 1)

\* findEmptySessionEnv
findEmptySessionEnv(f) == findEmptySessionEnvFrom(f, 1)

\* The elements of a sequence
Range(seq) == {seq[i] : i \in 1..Len(seq)}

\* FindOrphans
FindOrphans(f, validSessionIDs) ==
    LET validIDs == Range(validSessionIDs)
    IN  findEmptySessions(f) \o findOrphanTodos(f, validIDs)
            \o findOrphanFileHistory(f, validIDs) \o findEmptySessionEnv(f)

\* One round of the loop of CleanOrphans
CleanOrphansItem(f, item) ==
    LET st == Stat(f, item.Path)
        rm == IF st = "dir" THEN RemoveAll(f, item.Path) ELSE Remove(f, item.Path)
    IN  IF IsNotExist(st)
        THEN [outcome |-> "absent", item |-> [item EXCEPT !.SizeSaved = 0], fs |-> f]
        ELSE IF st = "error" THEN [outcome |-> "error", item |-> item, fs |-> f]
        ELSE IF ~rm.ok THEN [outcome |-> "failed", item |-> item, fs |-> f]
        ELSE [outcome |-> "removed", item |-> item, fs |-> rm.fs]

\* An entry of the history of filesystem operations
FsOp(op, path, ok) == [op |-> op, path |-> path, ok |-> ok, phase |-> phase]

RECURSIVE CleanOrphansSkipping(_, _, _, _)
\* A plausible bug: the loop goes on after an item that failed
CleanOrphansSkipping(f, results, i, done) ==
    IF i > Len(results) THEN [results |-> results, err |-> FALSE, fs |-> f, ops |-> done]
    ELSE LET r == CleanOrphansItem(f, results[i])
             path == results[i].Path
         IN  CASE r.outcome \in {"error", "absent"} ->
                    CleanOrphansSkipping(f, results, i + 1, done)
               [] r.outcome = "failed" ->
                    CleanOrphansSkipping(f, results, i + 1,
                                         Append(done, FsOp("remove", path, FALSE)))
               [] OTHER ->
                    CleanOrphansSkipping(r.fs, results, i + 1,
                                         Append(done, FsOp("remove", path, TRUE)))

RECURSIVE CleanOrphansFrom(_, _, _, _)
\* The loop of CleanOrphans from item i on; done is the history of its
\* removals so far
CleanOrphansFrom(f, results, i, done) ==
    IF i > Len(results) THEN [results |-> results, err |-> FALSE, fs |-> f, ops |-> done]
    ELSE LET r == CleanOrphansItem(f, results[i])
             path == results[i].Path
         IN  CASE r.outcome = "error" ->
                    [results |-> results, err |-> TRUE, fs |-> f, ops |-> done]
               [] r.outcome = "failed" ->
                    [results |-> results, err |-> TRUE, fs |-> f,
                     ops |-> Append(done, FsOp("remove", path, FALSE))]
               [] r.outcome = "absent" ->
                    CleanOrphansFrom(f, [results EXCEPT ![i] = r.item], i + 1, done)
               [] OTHER ->
                    CleanOrphansFrom(r.fs, results, i + 1,
                                     Append(done, FsOp("remove", path, TRUE)))

\* CleanOrphans: the results, the error, the filesystem it leaves and the
\* removals it attempted
CleanOrphans(f, orphans, dryRun) ==
    IF dryRun THEN [results |-> orphans, err |-> FALSE, fs |-> f, ops |-> <<>>]
    ELSE CleanOrphansFrom(f, orphans, 1, <<>>)

RECURSIVE OrphanChanges(_)
OrphanChanges(orphans) ==
    IF orphans = <<>> THEN <<>>
    ELSE <<Change("DELETE", Head(orphans).Path, Head(orphans).SizeSaved)>>
            \o OrphanChanges(Tail(orphans))

\* BuildOrphanPreview (the descriptions are left out)
BuildOrphanPreview(orphans) ==
    [Title |-> "Orphan Cleanup", Changes |-> OrphanChanges(orphans), Kept |-> <<>>]

(***************************************************************************)
(* package claude: settings; package cleaner: deduplication                *)
(***************************************************************************)
Entries == {"git", "make"}           \* permission entries, compared as strings

Permissions(allow, deny, ask) == [Allow |-> allow, Deny |-> deny, Ask |-> ask]
NoPermissions == Permissions(<<>>, <<>>, <<>>)

\* A settings file: absent, of zero bytes ("empty"), not JSON ("bad"), or a
\* JSON object ("ok") with its permissions and maybe other fields (extra)
NoFile == [state |-> "absent", perm |-> NoPermissions, extra |-> FALSE]
SettingsFile(perm, extra) == [state |-> "ok", perm |-> perm, extra |-> extra]

\* LoadSettings of the file's content
LoadSettings(file) ==
    CASE file.state \in {"absent", "empty"} -> [err |-> FALSE, settings |-> NoPermissions]
      [] file.state = "bad" -> [err |-> TRUE, settings |-> NoPermissions]
      [] OTHER -> [err |-> FALSE, settings |-> file.perm]

\* The settings file at a path, as os.ReadFile finds it
FileAt(f, path) ==
    IF path[1] = "lset" /\ Stat(f, path) = "file" THEN f.lset[path[2]] ELSE NoFile

\* diffSlice
diffSlice(a, b) == SelectSeq(a, LAMBDA v : v \notin Range(b))

\* A plausible bug: the entries are looked for in every category of the other
DiffAnyCategory(s, other) ==
    LET all == other.Allow \o other.Deny \o other.Ask
    IN  Permissions(SelectSeq(s.Allow, LAMBDA v : v \notin Range(all)),
                    SelectSeq(s.Deny, LAMBDA v : v \notin Range(all)),
                    SelectSeq(s.Ask, LAMBDA v : v \notin Range(all)))

\* Settings.Diff
Diff(s, other) ==
    Permissions(diffSlice(s.Allow, other.Allow), diffSlice(s.Deny, other.Deny),
                diffSlice(s.Ask, other.Ask))

\* Settings.IsEmpty
IsEmpty(s) == Len(s.Allow) = 0 /\ Len(s.Deny) = 0 /\ Len(s.Ask) = 0

RECURSIVE Unique(_)
\* A list without the repetitions of its entries
Unique(list) ==
    IF list = <<>> THEN <<>>
    ELSE <<Head(list)>> \o Unique(SelectSeq(Tail(list), LAMBDA v : v # Head(list)))

\* A plausible bug: each duplicate is reported once
findDuplicatesOnce(local, global) ==
    IF Len(local) = 0 \/ Len(global) = 0 THEN <<>>
    ELSE Unique(SelectSeq(local, LAMBDA v : v \in Range(global)))

\* A plausible bug: the entries that stay lose their repetitions
removeEntriesOnce(slice, toRemove) ==
    IF Len(slice) = 0 THEN <<>>
    ELSE Unique(SelectSeq(slice, LAMBDA v : v \notin Range(toRemove)))

\* findDuplicates
findDuplicates(local, global) ==
    IF Len(local) = 0 \/ Len(global) = 0 THEN <<>>
    ELSE SelectSeq(local, LAMBDA v : v \in Range(global))

\* DeduplicateConfig
DeduplicateConfig(localPath, global, local) ==
    [LocalPath |-> localPath,
     DuplicateAllow |-> findDuplicates(local.Allow, global.Allow),
     DuplicateDeny |-> findDuplicates(local.Deny, global.Deny),
     DuplicateAsk |-> findDuplicates(local.Ask, global.Ask),
     SuggestDelete |-> IsEmpty(Diff(local, global))]

\* DedupResult.HasDuplicates
HasDuplicates(r) ==
    Len(r.DuplicateAllow) > 0 \/ Len(r.DuplicateDeny) > 0 \/ Len(r.DuplicateAsk) > 0

\* removeEntries
removeEntries(slice, toRemove) ==
    IF Len(slice) = 0 THEN <<>>
    ELSE SelectSeq(slice, LAMBDA v : v \notin Range(toRemove))

\* os.WriteFile of a settings file
WriteFile(f, path, content) ==
    IF path \in f.locked \/ ~f.work[path[2]] THEN [ok |-> FALSE, fs |-> f]
    ELSE [ok |-> TRUE, fs |-> [f EXCEPT !.lset[path[2]] = content]]

\* ApplyDedup: the error, the filesystem it leaves and what it attempted
ApplyDedup(f, result, dryRun) ==
    LET path == result.LocalPath
        rm == Remove(f, path)
        loaded == LoadSettings(FileAt(f, path))
        s == loaded.settings
        updated == Permissions(removeEntries(s.Allow, result.DuplicateAllow),
                               removeEntries(s.Deny, result.DuplicateDeny),
                               removeEntries(s.Ask, result.DuplicateAsk))
        wr == WriteFile(f, path, SettingsFile(updated, FALSE))
    IN  IF dryRun THEN [err |-> FALSE, fs |-> f, acted |-> "none"]
        ELSE IF IsNotExist(Stat(f, path)) THEN [err |-> FALSE, fs |-> f, acted |-> "none"]
        ELSE IF result.SuggestDelete
        THEN [err |-> ~rm.ok, fs |-> rm.fs, acted |-> "remove"]
        ELSE IF loaded.err THEN [err |-> TRUE, fs |-> f, acted |-> "none"]
        ELSE [err |-> ~wr.ok, fs |-> wr.fs, acted |-> "write"]

RECURSIVE ProjectPathsOf(_)
\* cleanConfig's list of the project paths: the non-empty ActualPaths, in order
ProjectPathsOf(projects) ==
    IF projects = <<>> THEN <<>>
    ELSE (IF Head(projects).ActualPath # "" THEN <<Head(projects).ActualPath>> ELSE <<>>)
            \o ProjectPathsOf(Tail(projects))

RECURSIVE FindLocalConfigsFromProjects(_, _)
\* FindLocalConfigsFromProjects (no project path is the home directory, so
\* the excluded path never matches)
FindLocalConfigsFromProjects(f, projectPaths) ==
    IF projectPaths = <<>> THEN <<>>
    ELSE (IF Stat(f, LsetP(Head(projectPaths))) \in {"file", "dir"}
          THEN <<LsetP(Head(projectPaths))>> ELSE <<>>)
            \o FindLocalConfigsFromProjects(f, Tail(projectPaths))

RECURSIVE AnalyzeConfigs(_, _, _)
\* cleanConfig's loop over the local configs: the results worth applying
AnalyzeConfigs(f, global, localConfigs) ==
    IF localConfigs = <<>> THEN <<>>
    ELSE LET configPath == Head(localConfigs)
             local == LoadSettings(FileAt(f, configPath))
             result == DeduplicateConfig(configPath, global, local.settings)
         IN  (IF ~local.err /\ (HasDuplicates(result) \/ result.SuggestDelete)
              THEN <<result>> ELSE <<>>)
                \o AnalyzeConfigs(f, global, Tail(localConfigs))

RECURSIVE DedupChanges(_)
DedupChanges(results) ==
    IF results = <<>> THEN <<>>
    ELSE <<Change(IF Head(results).SuggestDelete THEN "DELETE" ELSE "MODIFY",
                  Head(results).LocalPath, 0)>> \o DedupChanges(Tail(results))

\* BuildDedupPreview and BuildDedupPreviewVerbose (the descriptions are left out)
BuildDedupPreview(results) ==
    [Title |-> "Config Deduplication", Changes |-> DedupChanges(results), Kept |-> <<>>]

(***************************************************************************)
(* package ui: the audit log                                               *)
(***************************************************************************)
AuditP == <<"audit", "", "">>

\* A plausible bug: the log file is opened with O_TRUNC
NewAuditLoggerTruncating(f) ==
    IF ~f.auditOk THEN [err |-> TRUE, fs |-> f]
    ELSE [err |-> FALSE, fs |-> [f EXCEPT !.audit = [exists |-> TRUE, lines |-> <<>>]]]

\* NewAuditLogger: os.OpenFile with O_APPEND|O_CREATE creates a missing file
\* and keeps the content of an existing one
NewAuditLogger(f) ==
    IF ~f.auditOk THEN [err |-> TRUE, fs |-> f]
    ELSE [err |-> FALSE, fs |-> [f EXCEPT !.audit.exists = TRUE]]

\* AuditLogger.Log: one line at the end of the file
Log(f, action, path, size) ==
    [f EXCEPT !.audit.lines = Append(@, [action |-> action, path |-> path, size |-> size])]

\* AuditLogger.LogWithDetails: one line at the end of the file (the text of
\* the details is left out of the line)
LogWithDetails(f, action, path, details) ==
    [f EXCEPT !.audit.lines = Append(@, [action |-> action, path |-> path, size |-> 0])]

(***************************************************************************)
(* The filesystems and the inputs that the runs start from.                *)
(***************************************************************************)
MaxEnv == 1        \* changes other processes make while one prompt waits
MaxCalls == 4      \* calls made on the audit logger in one direct use of it
MaxPerm == 2       \* longest permission list given to a direct call of DeduplicateConfig

FEmpty(n) == [name |-> n, lines |-> <<>>]
FBad(n) == [name |-> n, lines |-> <<Bad>>]
FGood(n, w, s) == [name |-> n, lines |-> <<Rec(w, s, 1)>>]
FLate(n, w, s) == [name |-> n, lines |-> <<Blank, Rec("", s, 1), Rec(w, s, 2)>>]

NoAudit == [exists |-> FALSE, lines |-> <<>>]
OldAudit == [exists |-> TRUE, lines |-> <<[action |-> "DELETE", path |-> WorkP("/old"), size |-> 1]>>]

FsBase ==
    [projectsDir |-> TRUE,
     work |-> [w \in WorkPaths |-> FALSE],
     store |-> [p \in EncodedNames |-> NoDir],
     todos |-> [t \in TodoIds |-> NoTodo],
     hist |-> [s \in HistIds |-> NoHist],
     env |-> [s \in EnvIds |-> NoEnv],
     gset |-> NoFile,
     lset |-> [w \in WorkPaths |-> NoFile],
     denied |-> {},
     locked |-> {},
     audit |-> NoAudit,
     auditOk |-> TRUE]

\* clean projects: the storage directories, the working directories, paths
\* that cannot be examined or removed, and the audit log
FsProjects ==
    {[FsBase EXCEPT !.work = work, !.store = [pa |-> a, pb |-> b], !.denied = denied,
                    !.locked = locked, !.audit = audit, !.auditOk = auditOk] :
        work \in [WorkPaths -> BOOLEAN],
        a \in {NoDir, Dir(<<>>), Dir(<<FEmpty("a")>>), Dir(<<FGood("a", "/w1", "s1")>>),
               Dir(<<FBad("a"), FLate("b", "/w1", "s1")>>),
               Dir(<<FEmpty("a"), FGood("b", "/w2", "s2")>>)},
        b \in {NoDir, Dir(<<FGood("a", "/w1", "s2")>>), Dir(<<FGood("a", "/w2", "s2")>>)},
        denied \in {{}, {WorkP("/w1")}},
        locked \in {{}, {StoreP("pa")}},
        audit \in {NoAudit, OldAudit},
        auditOk \in BOOLEAN}
    \cup {[FsBase EXCEPT !.projectsDir = FALSE]}

\* clean orphans: todo files, file-history and session-env directories, and
\* a project that holds an empty session file; a project whose session file
\* has no cwd, fails to parse, or carries the ids of two sessions
FsOrphans ==
    {[FsBase EXCEPT !.store = [pa |-> a, pb |-> NoDir], !.todos = todos, !.hist = hist,
                    !.env = [s1 |-> e1, s9 |-> e9], !.locked = locked, !.denied = denied] :
        a \in {NoDir, Dir(<<FEmpty("a"), FGood("b", "/w1", "s1")>>)},
        todos \in {[t \in TodoIds |-> IF t \in CliTodoIds THEN some[t] ELSE NoTodo] :
                      some \in [CliTodoIds -> {NoTodo, TodoFile(5)}]},
        hist \in {[s \in HistIds |-> IF s \in CliHistIds THEN some[s] ELSE NoHist] :
                     some \in [CliHistIds -> {NoHist, HistDir(<<2, 3>>)}]},
        e1 \in {NoEnv, [exists |-> TRUE, entries |-> 0]},
        e9 \in {NoEnv, [exists |-> TRUE, entries |-> 0], [exists |-> TRUE, entries |-> 1]},
        locked \in {{}, {TodoP("t2")}, {HistP("s9")}},
        denied \in {{}, {HistP("s9")}, {EnvP("s9")}}}
    \cup {[FsBase EXCEPT !.todos = [t \in TodoIds |->
                                          IF t \in CliTodoIds THEN TodoFile(5) ELSE NoTodo],
                         !.hist["s9"] = h, !.locked = locked, !.auditOk = FALSE] :
            h \in {NoHist, HistDir(<<2, 3>>)},
            locked \in {{}, {TodoP("t2")}}}
    \cup {[FsBase EXCEPT !.store["pa"] = Dir(<<[name |-> "a", lines |-> lines]>>),
                         !.todos = [t \in TodoIds |->
                                          IF t \in CliTodoIds THEN TodoFile(5) ELSE NoTodo],
                         !.hist["s1"] = h, !.hist["s9"] = h] :
            lines \in {<<Rec("", "s1", 1)>>, <<Bad, Rec("/w1", "s1", 1)>>,
                       <<Rec("/w1", "s1", 1), Rec("/w1", "s9", 2)>>},
            h \in {NoHist, HistDir(<<2, 3>>)}}

GlobalFiles ==
    {NoFile, [NoFile EXCEPT !.state = "bad"],
     SettingsFile(Permissions(<<"git">>, <<>>, <<>>), FALSE),
     SettingsFile(Permissions(<<"git", "make">>, <<"make">>, <<>>), TRUE)}

LocalFiles ==
    {NoFile, [NoFile EXCEPT !.state = "empty"], [NoFile EXCEPT !.state = "bad"],
     SettingsFile(Permissions(<<"git">>, <<>>, <<>>), FALSE),
     SettingsFile(Permissions(<<"git", "make">>, <<>>, <<>>), FALSE),
     SettingsFile(Permissions(<<"make", "git", "make">>, <<"git">>, <<>>), TRUE),
     SettingsFile(NoPermissions, TRUE)}

\* clean config: the global settings, the local settings of the projects'
\* working directories, and two projects that may share a working directory
FsConfig ==
    {[FsBase EXCEPT !.work = [w \in WorkPaths |-> TRUE],
                    !.store = [pa |-> Dir(<<FGood("a", "/w1", "s1")>>), pb |-> b],
                    !.gset = g, !.lset = [w \in WorkPaths |-> IF w = "/w1" THEN l1 ELSE l2],
                    !.locked = locked, !.auditOk = auditOk] :
        b \in {NoDir, Dir(<<FGood("a", "/w1", "s2")>>), Dir(<<FGood("a", "/w2", "s2")>>)},
        g \in GlobalFiles,
        l1 \in LocalFiles,
        l2 \in {NoFile, SettingsFile(Permissions(<<"git">>, <<>>, <<>>), FALSE)},
        locked \in {{}, {LsetP("/w1")}},
        auditOk \in BOOLEAN}

\* clean with no subcommand: something to do in each of the three phases
FsAll ==
    {[FsBase EXCEPT !.work = [w \in WorkPaths |-> w = "/w1"],
                    !.store = [pa |-> Dir(<<FGood("a", "/w1", "s1")>>), pb |-> b],
                    !.todos = [t \in TodoIds |-> IF t \in {"t1", "t2"} THEN todo ELSE NoTodo],
                    !.hist = [s \in HistIds |-> IF s \in CliHistIds THEN h ELSE NoHist],
                    !.gset = SettingsFile(Permissions(<<"git">>, <<>>, <<>>), FALSE),
                    !.lset = [w \in WorkPaths |->
                                SettingsFile(Permissions(<<"git", "make">>, <<>>, <<>>), FALSE)],
                    !.locked = locked] :
        b \in {NoDir, Dir(<<FGood("a", "/w2", "s9")>>)},
        todo \in {NoTodo, TodoFile(5)},
        h \in {NoHist, HistDir(<<2, 3>>)},
        locked \in {{}, {TodoP("t2")}}}

\* What the user types: nothing, an answer with its newline, an answer cut
\* short by the end of the input, and an answer for each of three prompts
StdinCli == {<<>>, <<"y", NL>>, <<"n", NL>>, <<"y">>}
StdinAll == {<<"y", NL, "y", NL, "y", NL>>, <<"y", NL, "n", NL, "y", NL>>, <<"n", NL>>}

Subcommands == {"projects", "orphans", "config", ""}

ArgsOf(sub, dry, yes) == [Subcommand |-> sub, DryRun |-> dry, Yes |-> yes]

FsFor(sub) ==
    CASE sub = "projects" -> FsProjects
      [] sub = "orphans" -> FsOrphans
      [] sub = "config" -> FsConfig
      [] OTHER -> FsAll

EmptyPreview == [Title |-> "", Changes |-> <<>>, Kept |-> <<>>]

\* The local variables of a clean function
EmptyLoc ==
    [projects |-> <<>>, stale |-> <<>>, orphans |-> <<>>, results |-> <<>>,
     dedup |-> <<>>, preview |-> EmptyPreview, shown |-> FALSE, confirmed |-> FALSE,
     answer |-> [data |-> <<>>, err |-> FALSE, asked |-> FALSE],
     logger |-> "none", idx |-> 1, totalSaved |-> 0, env |-> 0]

NoCall == [fn |-> "cli"]
NoRet == [done |-> FALSE, vals |-> <<>>]

\* One invocation of cccc clean [projects|orphans|config] [--dry-run] [--yes]
InitCli ==
    /\ \E sub \in Subcommands, dry \in BOOLEAN, yes \in BOOLEAN :
          /\ args = ArgsOf(sub, dry, yes)
          /\ fs \in FsFor(sub)
          /\ stdin \in IF dry \/ yes THEN {<<>>}
                       ELSE IF sub = "" THEN StdinAll ELSE StdinCli
          /\ phase = IF sub = "" THEN "projects" ELSE sub
    /\ stdout = <<>>
    /\ stderr = <<>>
    /\ pc = "detect"
    /\ loc = EmptyLoc
    /\ ops = <<>>
    /\ exitCode = 0
    /\ call = NoCall
    /\ ret = NoRet

(***************************************************************************)
(* The clean commands of the CLI                                           *)
(***************************************************************************)
\* A plausible bug: the config phase is run before the orphans phase
NextPhaseConfigFirst(ph) == IF ph = "projects" THEN "config" ELSE "orphans"

\* handleClean's sequence of the clean functions when no subcommand is given
NextPhase(ph) == IF ph = "projects" THEN "orphans" ELSE "config"

\* The return of a clean function with the exit code `code`: the deferred
\* Close of the audit logger runs, and handleClean goes on to the next clean
\* function when no subcommand was given and the code is 0
Return(code, l) ==
    LET closed == [l EXCEPT !.logger = IF @ = "open" THEN "closed" ELSE @]
    IN  IF args.Subcommand = "" /\ code = 0 /\ phase # "config"
        THEN /\ pc' = "detect"
             /\ phase' = NextPhase(phase)
             /\ loc' = EmptyLoc
             /\ exitCode' = exitCode
        ELSE /\ pc' = "done"
             /\ phase' = phase
             /\ loc' = closed
             /\ exitCode' = code

\* A plausible bug: the dry run goes on to the confirmation
GateNoDryRun(l) ==
    IF args.Yes
    THEN /\ stdout' = stdout \o <<"preview">>
         /\ pc' = "open"
         /\ loc' = [l EXCEPT !.shown = TRUE, !.confirmed = TRUE]
         /\ UNCHANGED <<phase, exitCode>>
    ELSE /\ stdout' = stdout \o <<"preview", "Proceed? [y/N]: ">>
         /\ pc' = "prompt"
         /\ loc' = [l EXCEPT !.shown = TRUE]
         /\ UNCHANGED <<phase, exitCode>>

\* From the built preview to the prompt: the dry run displays the preview and
\* returns; ConfirmChanges displays the preview and, unless --yes was given,
\* writes the prompt and waits for the answer
Gate(l) ==
    IF args.DryRun
    THEN /\ stdout' = stdout \o <<"[DRY RUN]", "preview">>
         /\ Return(0, [l EXCEPT !.shown = TRUE])
    ELSE IF args.Yes
    THEN /\ stdout' = stdout \o <<"preview">>
         /\ pc' = "open"
         /\ loc' = [l EXCEPT !.shown = TRUE, !.confirmed = TRUE]
         /\ UNCHANGED <<phase, exitCode>>
    ELSE /\ stdout' = stdout \o <<"preview", "Proceed? [y/N]: ">>
         /\ pc' = "prompt"
         /\ loc' = [l EXCEPT !.shown = TRUE]
         /\ UNCHANGED <<phase, exitCode>>

\* cleanProjects up to the gate
DetectProjects ==
    /\ pc = "detect"
    /\ phase = "projects"
    /\ LET scan == ScanProjects(fs)
           stale == FindStaleProjects(scan.projects, fs)
           staleSet == {stale[i].EncodedName : i \in 1..Len(stale)}
           kept == SelectSeq(scan.projects, LAMBDA p : p.EncodedName \notin staleSet)
           l == [loc EXCEPT !.projects = scan.projects, !.stale = stale,
                            !.preview = BuildStalePreview(stale, kept)]
       IN  IF scan.err
           THEN /\ stderr' = Append(stderr, "Error scanning projects")
                /\ stdout' = stdout
                /\ Return(1, loc)
           ELSE IF Len(stale) = 0
           THEN /\ stdout' = Append(stdout, "No stale projects found.")
                /\ stderr' = stderr
                /\ Return(0, [loc EXCEPT !.projects = scan.projects])
           ELSE /\ Gate(l)
                /\ stderr' = stderr
    /\ UNCHANGED <<fs, args, stdin, ops, call, ret>>

RECURSIVE AllSessionIDs(_)
\* cleanOrphans' list of the valid session ids
AllSessionIDs(projects) ==
    IF projects = <<>> THEN <<>>
    ELSE Head(projects).SessionIDs \o AllSessionIDs(Tail(projects))

\* cleanOrphans up to the gate
DetectOrphans ==
    /\ pc = "detect"
    /\ phase = "orphans"
    /\ LET scan == ScanProjects(fs)
           orphans == FindOrphans(fs, AllSessionIDs(scan.projects))
           l == [loc EXCEPT !.projects = scan.projects, !.orphans = orphans,
                            !.preview = BuildOrphanPreview(orphans)]
       IN  IF scan.err
           THEN /\ stderr' = Append(stderr, "Error scanning projects")
                /\ stdout' = stdout
                /\ Return(1, loc)
           ELSE IF Len(orphans) = 0
           THEN /\ stdout' = Append(stdout, "No orphaned data found.")
                /\ stderr' = stderr
                /\ Return(0, [loc EXCEPT !.projects = scan.projects])
           ELSE /\ Gate(l)
                /\ stderr' = stderr
    /\ UNCHANGED <<fs, args, stdin, ops, call, ret>>

RECURSIVE LoadWarnings(_, _)
\* cleanConfig's warnings for the local configs that do not load
LoadWarnings(f, localConfigs) ==
    IF localConfigs = <<>> THEN <<>>
    ELSE (IF LoadSettings(FileAt(f, Head(localConfigs))).err
          THEN <<"Warning: could not load">> ELSE <<>>)
            \o LoadWarnings(f, Tail(localConfigs))

\* cleanConfig up to the gate
DetectConfig ==
    /\ pc = "detect"
    /\ phase = "config"
    /\ LET global == LoadSettings(fs.gset)
           scan == ScanProjects(fs)
           localConfigs == FindLocalConfigsFromProjects(fs, ProjectPathsOf(scan.projects))
           results == AnalyzeConfigs(fs, global.settings, localConfigs)
           l == [loc EXCEPT !.projects = scan.projects, !.dedup = results,
                            !.preview = BuildDedupPreview(results)]
       IN  IF global.err
           THEN /\ stderr' = Append(stderr, "Error loading global settings")
                /\ stdout' = stdout
                /\ Return(1, loc)
           ELSE IF scan.err
           THEN /\ stderr' = Append(stderr, "Error scanning projects")
                /\ stdout' = stdout
                /\ Return(1, loc)
           ELSE IF Len(localConfigs) = 0
           THEN /\ stdout' = Append(stdout, "No local configs found.")
                /\ stderr' = stderr
                /\ Return(0, [loc EXCEPT !.projects = scan.projects])
           ELSE IF Len(results) = 0
           THEN /\ stdout' = Append(stdout, "No duplicate configs found.")
                /\ stderr' = stderr \o LoadWarnings(fs, localConfigs)
                /\ Return(0, [loc EXCEPT !.projects = scan.projects])
           ELSE /\ Gate(l)
                /\ stderr' = stderr \o LoadWarnings(fs, localConfigs)
    /\ UNCHANGED <<fs, args, stdin, ops, call, ret>>

\* A plausible bug: a declined prompt goes on to the cleanup
AnswerAlwaysProceeds(k) ==
    /\ pc = "prompt"
    /\ k >= ReadString(stdin, NL).used
    /\ stdin' = SubSeq(stdin, k + 1, Len(stdin))
    /\ pc' = "open"
    /\ loc' = [loc EXCEPT !.confirmed = TRUE,
                          !.answer = [data |-> ReadString(stdin, NL).data,
                                      err |-> ReadString(stdin, NL).err, asked |-> TRUE]]
    /\ UNCHANGED <<fs, args, stdout, stderr, phase, ops, exitCode, call, ret>>

\* The rest of ConfirmChanges, and the clean function's return on a decline.
\* Confirm reads through a bufio.Reader of its own, which takes from the
\* input the answer's line and as much of what follows it as the input
\* hands over at once: k characters in all
Answer(k) ==
    /\ pc = "prompt"
    /\ k >= ReadString(stdin, NL).used
    /\ stdin' = SubSeq(stdin, k + 1, Len(stdin))
    /\ LET read == ReadString(stdin, NL)
           l == [loc EXCEPT !.answer = [data |-> read.data, err |-> read.err, asked |-> TRUE]]
       IN  IF Confirm(stdin) = "ConfirmYes"
           THEN /\ pc' = "open"
                /\ loc' = [l EXCEPT !.confirmed = TRUE]
                /\ UNCHANGED <<stdout, phase, exitCode>>
           ELSE /\ stdout' = Append(stdout, "Aborted. No changes made.")
                /\ Return(0, l)
    /\ UNCHANGED <<fs, args, stderr, ops, call, ret>>

\* A plausible bug: the command gives up when the audit log cannot be opened
OpenAuditOrFail ==
    /\ pc = "open"
    /\ LET r == NewAuditLogger(fs)
       IN  IF r.err
           THEN /\ stderr' = Append(stderr, "Error: could not create audit log")
                /\ Return(1, [loc EXCEPT !.logger = "nil"])
                /\ UNCHANGED <<fs, ops>>
           ELSE /\ fs' = r.fs
                /\ loc' = [loc EXCEPT !.logger = "open", !.idx = 1]
                /\ ops' = Append(ops, FsOp("open", AuditP, TRUE))
                /\ stderr' = stderr
                /\ pc' = "apply"
                /\ UNCHANGED <<phase, exitCode>>
    /\ UNCHANGED <<args, stdin, stdout, call, ret>>

\* The creation of the audit logger after the confirmation
OpenAudit ==
    /\ pc = "open"
    /\ LET r == NewAuditLogger(fs)
       IN  IF r.err
           THEN /\ stderr' = Append(stderr, "Warning: could not create audit log")
                /\ loc' = [loc EXCEPT !.logger = "nil", !.idx = 1]
                /\ UNCHANGED <<fs, ops>>
           ELSE /\ fs' = r.fs
                /\ loc' = [loc EXCEPT !.logger = "open", !.idx = 1]
                /\ ops' = Append(ops, FsOp("open", AuditP, TRUE))
                /\ stderr' = stderr
    /\ pc' = "apply"
    /\ UNCHANGED <<args, stdin, stdout, phase, exitCode, call, ret>>

\* What a cleaner's attempt and the log line after it add to the history
Attempt(acted, op, path, ok) == IF acted THEN <<FsOp(op, path, ok)>> ELSE <<>>
Logged(l, path) == IF l.logger = "open" THEN <<FsOp("log", path, TRUE)>> ELSE <<>>

\* One round of cleanProjects' cleanup loop
ApplyProject ==
    /\ pc = "apply"
    /\ phase = "projects"
    /\ loc.idx <= Len(loc.stale)
    /\ LET p == loc.stale[loc.idx]
           r == CleanStaleProject(fs, p, FALSE)
       IN  IF r.err
           THEN /\ stderr' = Append(stderr, "Error cleaning project")
                /\ fs' = r.fs
                /\ ops' = ops \o Attempt(r.acted, "remove", StoreP(p.EncodedName), FALSE)
                /\ loc' = [loc EXCEPT !.idx = @ + 1]
           ELSE /\ stderr' = stderr
                /\ fs' = IF loc.logger = "open"
                         THEN Log(r.fs, "DELETE", WorkP(p.ActualPath), r.SizeSaved)
                         ELSE r.fs
                /\ ops' = ops \o Attempt(r.acted, "remove", StoreP(p.EncodedName), TRUE)
                              \o Logged(loc, WorkP(p.ActualPath))
                /\ loc' = [loc EXCEPT !.idx = @ + 1, !.totalSaved = @ + r.SizeSaved]
    /\ UNCHANGED <<args, stdin, stdout, pc, phase, exitCode, call, ret>>

\* The end of cleanProjects
FinishProjects ==
    /\ pc = "apply"
    /\ phase = "projects"
    /\ loc.idx > Len(loc.stale)
    /\ stdout' = Append(stdout, "Cleaned stale projects")
    /\ Return(0, loc)
    /\ UNCHANGED <<fs, args, stdin, stderr, ops, call, ret>>

RECURSIVE LogAll(_, _)
\* cleanOrphans' loop over the results: one log line for each
LogAll(f, results) ==
    IF results = <<>> THEN f
    ELSE LogAll(Log(f, "DELETE", Head(results).Path, Head(results).SizeSaved), Tail(results))

RECURSIVE LoggedAll(_, _)
LoggedAll(l, results) ==
    IF results = <<>> THEN <<>>
    ELSE Logged(l, Head(results).Path) \o LoggedAll(l, Tail(results))

RECURSIVE SumSaved(_)
SumSaved(results) ==
    IF results = <<>> THEN 0 ELSE Head(results).SizeSaved + SumSaved(Tail(results))

\* cleanOrphans' cleanup: the call of CleanOrphans, then the log lines
ApplyOrphans ==
    /\ pc = "apply"
    /\ phase = "orphans"
    /\ LET r == CleanOrphans(fs, loc.orphans, FALSE)
           l == [loc EXCEPT !.results = r.results]
       IN  IF r.err
           THEN /\ stderr' = Append(stderr, "Error cleaning orphans")
                /\ stdout' = stdout
                /\ fs' = r.fs
                /\ ops' = ops \o r.ops
                /\ Return(1, l)
           ELSE /\ stderr' = stderr
                /\ stdout' = Append(stdout, "Cleaned orphaned items")
                /\ fs' = IF loc.logger = "open" THEN LogAll(r.fs, r.results) ELSE r.fs
                /\ ops' = ops \o r.ops \o LoggedAll(loc, r.results)
                /\ Return(0, [l EXCEPT !.totalSaved = SumSaved(r.results)])
    /\ UNCHANGED <<args, stdin, call, ret>>

\* One round of cleanConfig's loop over the results
ApplyConfig ==
    /\ pc = "apply"
    /\ phase = "config"
    /\ loc.idx <= Len(loc.dedup)
    /\ LET result == loc.dedup[loc.idx]
           r == ApplyDedup(fs, result, FALSE)
           action == IF result.SuggestDelete THEN "DELETE" ELSE "MODIFY"
       IN  IF r.err
           THEN /\ stderr' = Append(stderr, "Error deduplicating")
                /\ fs' = r.fs
                /\ ops' = ops \o Attempt(r.acted # "none", r.acted, result.LocalPath, FALSE)
           ELSE /\ stderr' = stderr
                /\ fs' = IF loc.logger = "open"
                         THEN Log(r.fs, action, result.LocalPath, 0)
                         ELSE r.fs
                /\ ops' = ops \o Attempt(r.acted # "none", r.acted, result.LocalPath, TRUE)
                              \o Logged(loc, result.LocalPath)
    /\ loc' = [loc EXCEPT !.idx = @ + 1]
    /\ UNCHANGED <<args, stdin, stdout, pc, phase, exitCode, call, ret>>

\* The end of cleanConfig
FinishConfig ==
    /\ pc = "apply"
    /\ phase = "config"
    /\ loc.idx > Len(loc.dedup)
    /\ stdout' = Append(stdout, "Deduplicated config files")
    /\ Return(0, loc)
    /\ UNCHANGED <<fs, args, stdin, stderr, ops, call, ret>>

(***************************************************************************)
(* Other processes, while a prompt waits for its answer                    *)
(***************************************************************************)
\* A working directory is created (a checkout is restored)
EnvCreateWork(w) ==
    /\ pc = "prompt"
    /\ loc.env < MaxEnv
    /\ ~fs.work[w]
    /\ fs' = [fs EXCEPT !.work[w] = TRUE]
    /\ loc' = [loc EXCEPT !.env = @ + 1]
    /\ UNCHANGED <<args, stdin, stdout, stderr, pc, phase, ops, exitCode, call, ret>>

EnvRemovable ==
    {StoreP(p) : p \in EncodedNames} \cup {TodoP(t) : t \in TodoIds}
        \cup {LsetP(w) : w \in WorkPaths}

\* A storage directory, a todo file or a local settings file is removed
EnvRemove(path) ==
    /\ pc = "prompt"
    /\ loc.env < MaxEnv
    /\ Stat(fs, path) \in {"file", "dir"}
    /\ fs' = Without(fs, path)
    /\ loc' = [loc EXCEPT !.env = @ + 1]
    /\ UNCHANGED <<args, stdin, stdout, stderr, pc, phase, ops, exitCode, call, ret>>

\* An entry is created in a session-env directory (a session starts to use it)
EnvAddEntry(s) ==
    /\ pc = "prompt"
    /\ loc.env < MaxEnv
    /\ fs.env[s].exists
    /\ fs' = [fs EXCEPT !.env[s].entries = @ + 1]
    /\ loc' = [loc EXCEPT !.env = @ + 1]
    /\ UNCHANGED <<args, stdin, stdout, stderr, pc, phase, ops, exitCode, call, ret>>

(***************************************************************************)
(* Direct calls of the exported functions, as the unit tests make them     *)
(***************************************************************************)
LibProject(name, path, size) ==
    [EncodedName |-> name, ActualPath |-> path, SessionIDs |-> <<"s1">>,
     TotalSize |-> size, LastUsed |-> 1, FileCount |-> 1]

LibProjects ==
    {LibProject("pa", "", 5), LibProject("pa", "/w1", 0),
     LibProject("pb", "/w2", 5), LibProject("pb", "/w1", 5)}

LibOrphans ==
    {Orphan("todo", TodoP("t2"), 5), Orphan("file_history", HistP("s9"), 5),
     Orphan("session_env", EnvP("s9"), 0)}

RECURSIVE ListsUpTo(_, _)
\* The sequences of at most n elements of S
ListsUpTo(S, n) ==
    IF n = 0 THEN {<<>>}
    ELSE LET shorter == ListsUpTo(S, n - 1)
         IN  shorter \cup {Append(l, x) : l \in {t \in shorter : Len(t) = n - 1}, x \in S}

\* The working directories a direct call finds
FsLibWork ==
    {[FsBase EXCEPT !.work = work, !.denied = denied] :
        work \in [WorkPaths -> BOOLEAN], denied \in {{}, {WorkP("/w1")}}}

\* The storage directory of project pa
FsLibStore ==
    {[FsBase EXCEPT !.store["pa"] = a, !.locked = locked] :
        a \in {NoDir, Dir(<<FGood("a", "/w1", "s1")>>)},
        locked \in {{}, {StoreP("pa")}}}

\* The orphan candidates
FsLibOrphans ==
    {[FsBase EXCEPT !.todos["t2"] = todo, !.hist["s9"] = h, !.env["s9"] = e,
                    !.locked = locked, !.denied = denied] :
        todo \in {NoTodo, TodoFile(5)},
        h \in {NoHist, HistDir(<<2, 3>>)},
        e \in {NoEnv, [exists |-> TRUE, entries |-> 0]},
        locked \in {{}, {TodoP("t2")}},
        denied \in {{}, {HistP("s9")}}}

\* The local settings of /w1 and the global settings
FsLibConfig ==
    {[FsBase EXCEPT !.work["/w1"] = TRUE, !.gset = g, !.lset["/w1"] = l, !.locked = locked] :
        g \in GlobalFiles \ {[NoFile EXCEPT !.state = "bad"]},
        l \in LocalFiles,
        locked \in {{}, {LsetP("/w1")}}}

\* The audit log before a direct use of the logger
FsLibAudit ==
    {[FsBase EXCEPT !.audit = audit, !.auditOk = auditOk] :
        audit \in {NoAudit, OldAudit}, auditOk \in BOOLEAN}

\* What a direct call of FindOrphans finds: todo entries of every kind of
\* name, or file-history entries of every kind
FsLibTodos ==
    {[FsBase EXCEPT !.todos = todos, !.denied = denied] :
        todos \in {[t \in TodoIds |-> IF t = "t2" THEN t2 ELSE IF t \in here THEN
                                         (IF t = "t8" THEN TodoDir ELSE TodoFile(5))
                                       ELSE NoTodo] :
                      here \in SUBSET (TodoIds \ {"t2"}),
                      t2 \in {NoTodo, TodoFile(0), TodoFile(5)}},
        denied \in {{}, {TodoP("t2")}}}
FsLibHist ==
    {[FsBase EXCEPT !.hist = [s1 |-> h1, s8 |-> h8, s9 |-> h9], !.denied = denied] :
        h1 \in {NoHist, HistDir(<<2, 3>>)},
        h8 \in {NoHist, HistFile(4), HistDir(<<1>>)},
        h9 \in {NoHist, HistFile(7), HistDir(<<>>), HistDir(<<2, 3>>)},
        denied \in {{}, {HistP("s9")}}}
LibValidIDs == {<<>>, <<"s1">>, <<"s1", "s9">>, <<"s1", "s1">>}

\* The settings given to a direct call of DeduplicateConfig
PermLists == ListsUpTo(Entries, MaxPerm)
LibGlobals ==
    {Permissions(allow, deny, ask) :
        allow \in PermLists, deny \in {<<>>, <<"make">>}, ask \in {<<>>, <<"git">>}}
LibLocals ==
    {Permissions(allow, deny, ask) :
        allow \in PermLists, deny \in PermLists, ask \in {<<>>, <<"git">>}}

InitLib ==
    /\ \/ /\ call = [fn |-> "Confirm"]
          /\ fs = FsBase
          /\ stdin \in StringsUpTo(MaxInput)
       \/ /\ \E p \in LibProjects : call = [fn |-> "Exists", project |-> p]
          /\ fs \in FsLibWork
          /\ stdin = <<>>
       \/ /\ \E ps \in ListsUpTo(LibProjects, MaxList) :
                call = [fn |-> "FindStaleProjects", projects |-> ps]
          /\ fs \in FsLibWork
          /\ stdin = <<>>
       \/ /\ \E p \in {LibProject("pa", "/w1", 5)}, dry \in BOOLEAN :
                call = [fn |-> "CleanStaleProject", project |-> p, dryRun |-> dry]
          /\ fs \in FsLibStore
          /\ stdin = <<>>
       \/ /\ \E os \in ListsUpTo(LibOrphans, MaxList), dry \in BOOLEAN :
                call = [fn |-> "CleanOrphans", orphans |-> os, dryRun |-> dry]
          /\ fs \in FsLibOrphans
          /\ stdin = <<>>
       \/ /\ fs \in FsLibConfig
          /\ \E dry \in BOOLEAN :
                call = [fn |-> "ApplyDedup", dryRun |-> dry,
                        result |-> DeduplicateConfig(LsetP("/w1"), LoadSettings(fs.gset).settings,
                                        LoadSettings(FileAt(fs, LsetP("/w1"))).settings)]
          /\ stdin = <<>>
       \/ /\ \E g \in LibGlobals, l \in LibLocals :
                call = [fn |-> "DeduplicateConfig", global |-> g, local |-> l]
          /\ fs = FsBase
          /\ stdin = <<>>
       \/ /\ \E v \in LibValidIDs : call = [fn |-> "FindOrphans", validSessionIDs |-> v]
          /\ fs \in FsLibTodos \cup FsLibHist
          /\ stdin = <<>>
       \/ /\ call = [fn |-> "AuditLogger"]
          /\ fs \in FsLibAudit
          /\ stdin = <<>>
       \/ /\ call = [fn |-> "ParseSessionFile", path |-> SessP("pa", "a")]
          /\ \E lines \in ListsUpTo({Blank, Bad, Rec("", "s1", 1), Rec("/w1", "s1", 2),
                                     Rec("/w2", "s2", 3),
                                     [Rec("/w1", "s1", 1) EXCEPT !.kind = "long"]}, MaxList) :
                fs = [FsBase EXCEPT !.store["pa"] = Dir(<<[name |-> "a", lines |-> lines]>>)]
          /\ stdin = <<>>
       \/ /\ call = [fn |-> "ScanProjects"]
          /\ \E ls \in ListsUpTo({<<>>, <<Bad>>, <<Rec("", "s1", 1)>>, <<Rec("/w1", "s1", 1)>>,
                                  <<Rec("/w2", "s1", 2)>>, <<Rec("/w1", "", 1)>>,
                                  <<Blank, Rec("", "s2", 1), Rec("/w2", "s2", 2)>>}, MaxList),
                b \in {NoDir, Dir(<<>>), Dir(<<FBad("a"), FGood("b", "/w2", "s2")>>)} :
                fs = [FsBase EXCEPT
                        !.store = [pa |-> Dir([i \in 1..Len(ls) |->
                                                 [name |-> <<"a", "b", "c", "d">>[i],
                                                  lines |-> ls[i]]]),
                                   pb |-> b]]
          /\ stdin = <<>>
    /\ args = ArgsOf("", FALSE, FALSE)
    /\ stdout = <<>>
    /\ stderr = <<>>
    /\ pc = "lib"
    /\ phase = "lib"
    /\ loc = EmptyLoc
    /\ ops = <<>>
    /\ exitCode = 0
    /\ ret = [done |-> FALSE, vals |-> <<>>, before |-> fs, input |-> stdin]

\* The return of a call: its value, and the filesystem the call started from
Returned(val) ==
    [done |-> TRUE, vals |-> Append(ret.vals, val), before |-> fs, input |-> stdin]

LibConfirm ==
    /\ pc = "lib"
    /\ call.fn = "Confirm"
    /\ ret' = Returned(Confirm(stdin))
    /\ stdout' = Append(stdout, "prompt")
    /\ \E k \in ReadString(stdin, NL).used..Len(stdin) :
          stdin' = SubSeq(stdin, k + 1, Len(stdin))
    /\ pc' = "returned"
    /\ UNCHANGED <<fs, args, stderr, phase, loc, ops, exitCode, call>>

LibExists ==
    /\ pc = "lib"
    /\ call.fn = "Exists"
    /\ ret' = Returned(Exists(call.project, fs))
    /\ pc' = "returned"
    /\ UNCHANGED <<fs, args, stdin, stdout, stderr, phase, loc, ops, exitCode, call>>

\* Between two calls of Exists another process creates or removes a
\* working directory
LibEnvToggleWork(w) ==
    /\ pc = "returned"
    /\ call.fn = "Exists"
    /\ loc.env < MaxEnv
    /\ fs' = [fs EXCEPT !.work[w] = ~@]
    /\ loc' = [loc EXCEPT !.env = @ + 1]
    /\ pc' = "lib"
    /\ UNCHANGED <<args, stdin, stdout, stderr, phase, ops, exitCode, call, ret>>

\* FindStaleProjects, called once and then once more on the same input
LibFindStaleProjects ==
    /\ pc \in {"lib", "returned"}
    /\ call.fn = "FindStaleProjects"
    /\ Len(ret.vals) < 2
    /\ ret' = Returned(FindStaleProjects(call.projects, fs))
    /\ pc' = "returned"
    /\ UNCHANGED <<fs, args, stdin, stdout, stderr, phase, loc, ops, exitCode, call>>

LibCleanStaleProject ==
    /\ pc = "lib"
    /\ call.fn = "CleanStaleProject"
    /\ LET r == CleanStaleProject(fs, call.project, call.dryRun)
       IN  /\ ret' = Returned([err |-> r.err, SizeSaved |-> r.SizeSaved,
                               FilesRemoved |-> r.FilesRemoved])
           /\ fs' = r.fs
           /\ ops' = ops \o Attempt(r.acted, "remove", StoreP(call.project.EncodedName), ~r.err)
    /\ pc' = "returned"
    /\ UNCHANGED <<args, stdin, stdout, stderr, phase, loc, exitCode, call>>

LibCleanOrphans ==
    /\ pc = "lib"
    /\ call.fn = "CleanOrphans"
    /\ LET r == CleanOrphans(fs, call.orphans, call.dryRun)
       IN  /\ ret' = Returned([err |-> r.err, results |-> r.results])
           /\ fs' = r.fs
           /\ ops' = ops \o r.ops
    /\ pc' = "returned"
    /\ UNCHANGED <<args, stdin, stdout, stderr, phase, loc, exitCode, call>>

LibApplyDedup ==
    /\ pc = "lib"
    /\ call.fn = "ApplyDedup"
    /\ LET r == ApplyDedup(fs, call.result, call.dryRun)
       IN  /\ ret' = Returned([err |-> r.err])
           /\ fs' = r.fs
           /\ ops' = ops \o Attempt(r.acted # "none", r.acted, call.result.LocalPath, ~r.err)
    /\ pc' = "returned"
    /\ UNCHANGED <<args, stdin, stdout, stderr, phase, loc, exitCode, call>>

LibFindOrphans ==
    /\ pc = "lib"
    /\ call.fn = "FindOrphans"
    /\ ret' = Returned(FindOrphans(fs, call.validSessionIDs))
    /\ pc' = "returned"
    /\ UNCHANGED <<fs, args, stdin, stdout, stderr, phase, loc, ops, exitCode, call>>

LibDeduplicateConfig ==
    /\ pc = "lib"
    /\ call.fn = "DeduplicateConfig"
    /\ ret' = Returned(DeduplicateConfig(LsetP("/w1"), call.global, call.local))
    /\ pc' = "returned"
    /\ UNCHANGED <<fs, args, stdin, stdout, stderr, phase, loc, ops, exitCode, call>>

LibParseSessionFile ==
    /\ pc = "lib"
    /\ call.fn = "ParseSessionFile"
    /\ LET files == fs.store[call.path[2]].files
           file == CHOOSE file \in Range(files) : file.name = call.path[3]
       IN  ret' = Returned(ParseSessionFile(file))
    /\ pc' = "returned"
    /\ UNCHANGED <<fs, args, stdin, stdout, stderr, phase, loc, ops, exitCode, call>>

LibScanProjects ==
    /\ pc = "lib"
    /\ call.fn = "ScanProjects"
    /\ ret' = Returned(ScanProjects(fs))
    /\ pc' = "returned"
    /\ UNCHANGED <<fs, args, stdin, stdout, stderr, phase, loc, ops, exitCode, call>>

\* The audit logger used directly: loggers are created, written to and
\* closed one after the other, as by successive commands
LibNewAuditLogger ==
    /\ pc \in {"lib", "returned"}
    /\ call.fn = "AuditLogger"
    /\ Len(ret.vals) < MaxCalls
    /\ loc.logger # "open"
    /\ LET r == NewAuditLogger(fs)
       IN  /\ fs' = r.fs
           /\ ret' = Returned(r.err)
           /\ loc' = [loc EXCEPT !.logger = IF r.err THEN "nil" ELSE "open"]
           /\ ops' = IF r.err THEN ops ELSE Append(ops, FsOp("open", AuditP, TRUE))
    /\ pc' = "returned"
    /\ UNCHANGED <<args, stdin, stdout, stderr, phase, exitCode, call>>

\* Log and LogWithDetails return an error, and write nothing, once the
\* logger is closed
LibLog(path, detailed) ==
    /\ pc = "returned"
    /\ call.fn = "AuditLogger"
    /\ Len(ret.vals) < MaxCalls
    /\ loc.logger \in {"open", "closed"}
    /\ fs' = IF loc.logger = "closed" THEN fs
             ELSE IF detailed THEN LogWithDetails(fs, "MODIFY", path, "details")
             ELSE Log(fs, "DELETE", path, 5)
    /\ ops' = Append(ops, FsOp("log", path, loc.logger = "open"))
    /\ ret' = Returned(loc.logger = "closed")
    /\ UNCHANGED <<args, stdin, stdout, stderr, pc, phase, loc, exitCode, call>>

LibClose ==
    /\ pc = "returned"
    /\ call.fn = "AuditLogger"
    /\ Len(ret.vals) < MaxCalls
    /\ loc.logger = "open"
    /\ loc' = [loc EXCEPT !.logger = "closed"]
    /\ ret' = Returned(FALSE)
    /\ UNCHANGED <<fs, args, stdin, stdout, stderr, pc, phase, ops, exitCode, call>>

(***************************************************************************)
(* The specification                                                       *)
(***************************************************************************)
Init == InitCli \/ InitLib

Next ==
    \/ DetectProjects
    \/ DetectOrphans
    \/ DetectConfig
    \/ \E k \in 0..Len(stdin) : Answer(k)
    \/ OpenAudit
    \/ ApplyProject
    \/ FinishProjects
    \/ ApplyOrphans
    \/ ApplyConfig
    \/ FinishConfig
    \/ \E w \in WorkPaths : EnvCreateWork(w)
    \/ \E path \in EnvRemovable : EnvRemove(path)
    \/ \E s \in EnvIds : EnvAddEntry(s)
    \/ LibConfirm
    \/ LibExists
    \/ \E w \in WorkPaths : LibEnvToggleWork(w)
    \/ LibFindStaleProjects
    \/ LibCleanStaleProject
    \/ LibCleanOrphans
    \/ LibApplyDedup
    \/ LibFindOrphans
    \/ LibDeduplicateConfig
    \/ LibParseSessionFile
    \/ LibScanProjects
    \/ LibNewAuditLogger
    \/ \E path \in {TodoP("t1"), LsetP("/w1")}, detailed \in BOOLEAN : LibLog(path, detailed)
    \/ LibClose

Spec == Init /\ [][Next]_vars

(***************************************************************************)
(* The claims                                                              *)
(***************************************************************************)
IsCli == call.fn = "cli"
Called(fn) == pc = "returned" /\ call.fn = fn
LastVal == ret.vals[Len(ret.vals)]

\* A step of the program (the steps of other processes leave pc at the prompt)
ProgramStep == ~(pc = "prompt" /\ pc' = "prompt") /\ ~(pc = "returned" /\ pc' = "lib")

\* The text of a line without the blanks around it
Stripped(line) ==
    LET solid == {i \in 1..Len(line) : line[i] \notin {" ", NL, "\t", "\r"}}
        first == CHOOSE i \in solid : \A j \in solid : i <= j
        last == CHOOSE i \in solid : \A j \in solid : j <= i
    IN  IF solid = {} THEN <<>> ELSE SubSeq(line, first, last)

\* The line says y or yes, in any case and with blanks around it
SaysYes(line) ==
    LET t == Stripped(line)
    IN  \/ Len(t) = 1 /\ t[1] \in {"y", "Y"}
        \/ Len(t) = 3 /\ t[1] \in {"y", "Y"} /\ t[2] \in {"e", "E"} /\ t[3] \in {"s", "S"}

\* The response that an input holds: its text up to the first newline, or
\* all of it when it holds none
HasNewline(input) == \E i \in 1..Len(input) : input[i] = NL
Response(input) ==
    IF HasNewline(input)
    THEN SubSeq(input, 1, (CHOOSE i \in 1..Len(input) :
                              input[i] = NL /\ \A j \in 1..(i - 1) : input[j] # NL) - 1)
    ELSE input

\* The gate of the running clean function has been passed
GatePassed ==
    args.Yes \/ (loc.answer.asked /\ ~loc.answer.err /\ SaysYes(loc.answer.data))

\* The response waiting at the prompt is a decline: anything but a line
\* that says y or yes
Declines(input) == ~(HasNewline(input) /\ SaysYes(Response(input)))
PreviewShown == loc.shown /\ \E i \in 1..Len(stdout) : stdout[i] = "preview"

\* The program's mutations of a phase that succeeded, and its log lines
Mutations(ph) ==
    {i \in 1..Len(ops) : ops[i].phase = ph /\ ops[i].op \in {"remove", "write"} /\ ops[i].ok}
LogLines(ph) == {i \in 1..Len(ops) : ops[i].phase = ph /\ ops[i].op = "log"}
AuditOpened(ph) == \E i \in 1..Len(ops) : ops[i].phase = ph /\ ops[i].op = "open"

\* C1: in every clean command nothing is removed or rewritten and the audit
\* log is neither created nor appended unless the preview has been written
\* and the gate has been passed (--yes, or a y/yes response); a declined
\* prompt prints "Aborted", returns 0 and changes nothing.
C1_GateBeforeChange ==
    [][(IsCli /\ ProgramStep) =>
          /\ (fs' # fs \/ ops' # ops) => (PreviewShown /\ GatePassed)
          /\ (pc = "prompt" /\ Declines(stdin)) =>
                /\ stdout' = Append(stdout, "Aborted. No changes made.")
                /\ fs' = fs /\ ops' = ops
                /\ pc' \in {"done", "detect"}
                /\ exitCode' = 0]_vars

\* C1's case: a confirmed cleanup that removed something after a y
C1_Witness ==
    /\ IsCli /\ pc = "done" /\ ~args.Yes /\ loc.answer.asked
    /\ Mutations(phase) # {}

\* C2: the stale set is derived again right before each deletion: whenever
\* clean projects removes a project's storage directory, an existence check
\* of the project made at the moment of the removal fails, also when the
\* filesystem changed while the prompt was waiting.
C2_RemovedOnlyWhileAbsent ==
    [][(IsCli /\ pc = "apply" /\ phase = "projects") =>
          \A p \in EncodedNames :
             (fs.store[p].exists /\ ~fs'.store[p].exists) =>
                \A i \in 1..Len(loc.stale) :
                   loc.stale[i].EncodedName = p => ~Exists(loc.stale[i], fs)]_vars

\* The k-th smallest element of a set of numbers
KthOf(S, k) == CHOOSE i \in S : Cardinality({j \in S : j < i}) = k - 1

\* out is the sublist of inp at the indices in S, in the order of inp
IsSublistAt(out, inp, S) ==
    /\ Len(out) = Cardinality(S)
    /\ \A k \in 1..Len(out) : out[k] = inp[KthOf(S, k)]

\* C3: FindStaleProjects returns exactly the sublist of the input projects
\* for which Exists() is false, in input order, and changes nothing; a second
\* run on the same input and state gives the same output; when every
\* project's actual path exists the output is empty.
C3_FindStaleIsExactSublist ==
    Called("FindStaleProjects") =>
        /\ \A n \in 1..Len(ret.vals) :
              IsSublistAt(ret.vals[n], call.projects,
                          {i \in 1..Len(call.projects) : ~Exists(call.projects[i], fs)})
        /\ fs = ret.before
        /\ Len(ret.vals) = 2 => ret.vals[1] = ret.vals[2]
        /\ (\A i \in 1..Len(call.projects) : Exists(call.projects[i], fs)) => LastVal = <<>>

\* C3's case: two runs over a list of one stale and one present project
C3_Witness ==
    /\ Called("FindStaleProjects")
    /\ Len(ret.vals) = 2
    /\ Len(call.projects) = 2
    /\ Len(LastVal) = 1
    /\ LastVal[1] = call.projects[2]

\* C4: Exists() is true if and only if the actual path is non-empty and an
\* entry exists at that path at the time of the call, also when the entry's
\* stat fails for a reason other than absence.
C4_ExistsIffEntry ==
    Called("Exists") =>
        (LastVal <=> (call.project.ActualPath # "" /\ fs.work[call.project.ActualPath]))

\* C5: clean projects never removes the storage directory of a project whose
\* ActualPath is empty.
C5_EmptyPathNeverCleaned ==
    [][(IsCli /\ pc = "apply" /\ phase = "projects") =>
          \A p \in EncodedNames :
             (fs.store[p].exists /\ ~fs'.store[p].exists) =>
                \A i \in 1..Len(loc.stale) :
                   loc.stale[i].EncodedName = p => loc.stale[i].ActualPath # ""]_vars

\* C6, as claimed: Confirm returns ConfirmYes if and only if the response,
\* lower-cased and trimmed, is y or yes, also when the input ends without a
\* newline.
C6_YesIffSaysYes ==
    Called("Confirm") => (LastVal = "ConfirmYes" <=> SaysYes(Response(ret.input)))

\* C6, amended: Confirm returns ConfirmYes if and only if the input holds a
\* newline and the text before the first newline, lower-cased and trimmed,
\* is y or yes; every other input, an input that ends before a newline
\* among them, returns ConfirmNo.
C6_YesIffLineSaysYes ==
    Called("Confirm") =>
        /\ LastVal \in {"ConfirmYes", "ConfirmNo"}
        /\ LastVal = "ConfirmYes" <=> (HasNewline(ret.input) /\ SaysYes(Response(ret.input)))

\* C6's case: a padded, upper-case yes line is accepted
C6_Witness ==
    /\ Called("Confirm")
    /\ LastVal = "ConfirmYes"
    /\ ret.input = <<" ", "Y", "e", NL>> \/ ret.input = <<" ", "Y", " ", NL>>

\* A step of a dry run: of a clean command with --dry-run, or of a cleaner
\* called with dryRun = true
DryStep ==
    \/ IsCli /\ args.DryRun
    \/ call.fn \in {"CleanStaleProject", "CleanOrphans", "ApplyDedup"} /\ call.dryRun

\* C7: a dry run never changes the filesystem: with --dry-run (also with
\* --yes) each clean command stops after the preview, and CleanStaleProject,
\* CleanOrphans and ApplyDedup with dryRun = true leave every file and
\* directory as it was and create no audit log.
C7_DryRunChangesNothing ==
    [][DryStep =>
          /\ fs' = fs
          /\ ops' = ops
          /\ IsCli => pc' \in {"detect", "done"}]_vars

\* C7's case: a dry run with --yes that showed a preview of changes and ended
C7_Witness ==
    /\ IsCli /\ args.DryRun /\ args.Yes /\ pc = "done"
    /\ loc.shown /\ Len(loc.preview.Changes) > 0

\* C8: the size a dry run reports equals the size the real run reports from
\* the same starting state, for CleanStaleProject and for every result of
\* CleanOrphans.
C8_DryRunSizeMatches ==
    /\ (Called("CleanStaleProject") /\ ~call.dryRun /\ ~LastVal.err) =>
          LastVal.SizeSaved = CleanStaleProject(ret.before, call.project, TRUE).SizeSaved
    /\ (Called("CleanOrphans") /\ ~call.dryRun /\ ~LastVal.err) =>
          \A i \in 1..Len(call.orphans) :
             LastVal.results[i].SizeSaved
                = CleanOrphans(ret.before, call.orphans, TRUE).results[i].SizeSaved

\* C9: with an open audit log, every deletion or modification that succeeded
\* is followed by its audit line before the next item's filesystem action.
C9_LogLineAfterEachChange ==
    (IsCli /\ pc \in {"apply", "done", "detect"}) =>
        \A i \in 1..Len(ops) :
           (ops[i].op \in {"remove", "write"} /\ ops[i].ok /\ AuditOpened(ops[i].phase)) =>
               /\ i < Len(ops)
               /\ ops[i + 1].op = "log"
               /\ ops[i + 1].phase = ops[i].phase

\* C10: every audit line a clean command appends corresponds to a mutation
\* the command performed: an item whose removal or rewrite failed and an item
\* for which nothing was done (already absent, or handled earlier in the
\* batch) produce no audit line.
C10_LogLinesAreChanges ==
    IsCli =>
        \A ph \in {"projects", "orphans", "config"} :
           Cardinality(LogLines(ph)) <= Cardinality(Mutations(ph))

\* The batch of the running clean function and the path of its i-th item
BatchLen ==
    CASE phase = "projects" -> Len(loc.stale)
      [] phase = "orphans" -> Len(loc.orphans)
      [] OTHER -> Len(loc.dedup)
ItemPath(i) ==
    CASE phase = "projects" -> StoreP(loc.stale[i].EncodedName)
      [] phase = "orphans" -> loc.orphans[i].Path
      [] OTHER -> loc.dedup[i].LocalPath

\* The filesystem refuses to examine or to change the item's path
ItemBlocked(i) == ItemPath(i) \in (fs.locked \cup fs.denied)

\* The item's change is in place: its path is gone or, for a settings file
\* that is rewritten, none of its duplicates is left in the file
ItemApplied(i) ==
    IF phase = "config" /\ ~loc.dedup[i].SuggestDelete
    THEN LET r == loc.dedup[i]
             perm == FileAt(fs, r.LocalPath).perm
         IN  \/ IsNotExist(Stat(fs, r.LocalPath))
             \/ /\ Range(perm.Allow) \cap Range(r.DuplicateAllow) = {}
                /\ Range(perm.Deny) \cap Range(r.DuplicateDeny) = {}
                /\ Range(perm.Ask) \cap Range(r.DuplicateAsk) = {}
    ELSE IsNotExist(Stat(fs, ItemPath(i)))

\* A clean function has returned after its Apply
ApplyEnded == IsCli /\ pc = "done" /\ loc.confirmed

\* C11: in the Apply of clean projects, clean orphans and clean config an
\* item's failure does not end the batch: when the command returns, every
\* candidate that the filesystem allowed to change has been applied.
C11_BatchGoesOnAfterFailure ==
    ApplyEnded => \A i \in 1..BatchLen : ~ItemBlocked(i) => ItemApplied(i)

\* The items of a direct call of CleanOrphans, seen from the state it started in
OrphanPath(i) == call.orphans[i].Path
OrphanFails(i) ==
    \/ Stat(ret.before, OrphanPath(i)) = "error"
    \/ /\ Stat(ret.before, OrphanPath(i)) \in {"file", "dir"}
       /\ OrphanPath(i) \in ret.before.locked
FailingOrphans == {i \in 1..Len(call.orphans) : OrphanFails(i)}
FirstFailing ==
    IF FailingOrphans = {} THEN Len(call.orphans) + 1 ELSE KthOf(FailingOrphans, 1)

\* C12: CleanOrphans stops on error: it returns an error exactly when an
\* item's stat or removal fails; the items before the first failing one are
\* gone, and every other path, the items after it among them, is as it was.
C12_CleanOrphansStopsOnError ==
    (Called("CleanOrphans") /\ ~call.dryRun) =>
        LET before == {OrphanPath(i) : i \in 1..(FirstFailing - 1)}
        IN  /\ LastVal.err <=> FailingOrphans # {}
            /\ \A path \in before : IsNotExist(Stat(fs, path))
            /\ fs.todos = [t \in TodoIds |->
                  IF TodoP(t) \in before THEN NoTodo ELSE ret.before.todos[t]]
            /\ fs.hist = [h \in HistIds |->
                  IF HistP(h) \in before THEN NoHist ELSE ret.before.hist[h]]
            /\ fs.env = [e \in EnvIds |->
                  IF EnvP(e) \in before THEN NoEnv ELSE ret.before.env[e]]

\* C12's case: the first item was removed, the second failed, and a third
\* that could have been removed is still there
C12_Witness ==
    /\ Called("CleanOrphans") /\ ~call.dryRun
    /\ Len(call.orphans) = 3
    /\ FirstFailing = 2
    /\ LastVal.err
    /\ IsNotExist(Stat(fs, OrphanPath(1)))
    /\ ~IsNotExist(Stat(ret.before, OrphanPath(1)))
    /\ Stat(fs, OrphanPath(3)) \in {"file", "dir"}
    /\ ~OrphanFails(3)

\* C13: once the gate has been passed a clean command exits with 0, also
\* when items could not be removed or rewritten.
C13_ExitZeroAfterApply ==
    ApplyEnded => exitCode = 0

\* The warning that the audit log could not be created is on the error output
AuditWarned == \E i \in 1..Len(stderr) : stderr[i] = "Warning: could not create audit log"

\* C14: when the audit log cannot be created after the confirmation, the
\* command warns on the error output, writes no audit line, leaves the log
\* file alone and still applies the confirmed changes: when nothing else
\* fails every candidate is applied and the exit status is 0.
C14_NoAuditStillApplies ==
    (IsCli /\ ~fs.auditOk /\ loc.confirmed /\ pc \in {"apply", "done"}) =>
        /\ AuditWarned
        /\ loc.logger = "nil"
        /\ \A i \in 1..Len(ops) : ops[i].phase = phase => ops[i].op \notin {"open", "log"}
        /\ fs.audit \in {NoAudit, OldAudit}
        /\ (pc = "done" /\ fs.locked = {} /\ fs.denied = {}) =>
              /\ exitCode = 0
              /\ \A i \in 1..BatchLen : ItemApplied(i)

\* C14's case: a cleanup that removed something without an audit log
C14_Witness ==
    /\ IsCli /\ ~fs.auditOk /\ pc = "done" /\ loc.confirmed
    /\ fs.locked = {} /\ fs.denied = {}
    /\ Mutations(phase) # {}
    /\ AuditWarned

\* The audit lines that a step's new operations account for
NewLogs ==
    SelectSeq(SubSeq(ops', Len(ops) + 1, Len(ops')), LAMBDA o : o.op = "log" /\ o.ok)

\* C15: the audit log is append-only: every step of the program, through
\* any sequence of NewAuditLogger, Log, LogWithDetails and Close, leaves the
\* file's lines in place and adds one line for each successful log call, in
\* call order; the file is never truncated or deleted.
C15_AuditAppendOnly ==
    [][/\ Len(fs'.audit.lines) = Len(fs.audit.lines) + Len(NewLogs)
       /\ SubSeq(fs'.audit.lines, 1, Len(fs.audit.lines)) = fs.audit.lines
       /\ \A k \in 1..Len(NewLogs) :
             fs'.audit.lines[Len(fs.audit.lines) + k].path = NewLogs[k].path
       /\ fs.audit.exists => fs'.audit.exists]_vars

\* C15's case: a logger that found an old line, added one after it, was
\* closed and refused the next
C15_Witness ==
    /\ Called("AuditLogger")
    /\ Len(fs.audit.lines) = 2
    /\ fs.audit.lines[1] = OldAudit.lines[1]
    /\ fs.audit.lines[2].path = LsetP("/w1")
    /\ \E i \in 1..Len(ops) : ops[i].op = "log" /\ ~ops[i].ok
    /\ loc.logger = "closed"

\* Every entry of the list is an entry of the other list
AllIn(list, other) ==
    \A i \in 1..Len(list) : \E j \in 1..Len(other) : other[j] = list[i]

\* The indices of the list's entries that are entries of the other list
IndicesIn(list, other) ==
    {i \in 1..Len(list) : \E j \in 1..Len(other) : other[j] = list[i]}

\* C16: DeduplicateConfig sets SuggestDelete exactly when, in each of allow,
\* deny and ask on its own, every local entry is an entry of the global list
\* of that category; and with empty global settings it reports no duplicate.
C16_SuggestDeleteIffAllCovered ==
    Called("DeduplicateConfig") =>
        /\ LastVal.SuggestDelete <=>
              /\ AllIn(call.local.Allow, call.global.Allow)
              /\ AllIn(call.local.Deny, call.global.Deny)
              /\ AllIn(call.local.Ask, call.global.Ask)
        /\ (call.global = NoPermissions) =>
              /\ LastVal.DuplicateAllow = <<>>
              /\ LastVal.DuplicateDeny = <<>>
              /\ LastVal.DuplicateAsk = <<>>

\* C16's case: the local deny entry is allowed globally but not denied, so
\* the file is not to be deleted although its allow list is covered
C16_Witness ==
    /\ Called("DeduplicateConfig")
    /\ call.local.Allow = <<"git", "git">>
    /\ call.local.Deny = <<"make">>
    /\ call.global.Allow = <<"git", "make">>
    /\ call.global.Deny = <<>>
    /\ ~LastVal.SuggestDelete

\* C17: in each category on its own, the duplicates that DeduplicateConfig
\* reports are the local entries equal to some global entry of the same
\* category, in the local list's order and with its repetitions; the
\* settings given to it are not changed.
C17_DuplicatesAreLocalSubsequence ==
    Called("DeduplicateConfig") =>
        /\ IsSublistAt(LastVal.DuplicateAllow, call.local.Allow,
                       IndicesIn(call.local.Allow, call.global.Allow))
        /\ IsSublistAt(LastVal.DuplicateDeny, call.local.Deny,
                       IndicesIn(call.local.Deny, call.global.Deny))
        /\ IsSublistAt(LastVal.DuplicateAsk, call.local.Ask,
                       IndicesIn(call.local.Ask, call.global.Ask))
        /\ LastVal.LocalPath = LsetP("/w1")

\* C17's case: a repeated duplicate, and an entry that is global only in
\* another category
C17_Witness ==
    /\ Called("DeduplicateConfig")
    /\ call.local.Allow = <<"git", "git">>
    /\ call.local.Deny = <<"git", "make">>
    /\ call.global.Allow = <<"git">>
    /\ call.global.Deny = <<"make">>
    /\ LastVal.DuplicateAllow = <<"git", "git">>
    /\ LastVal.DuplicateDeny = <<"make">>

\* The settings in the local file of a direct call of ApplyDedup
LoadedBefore == LoadSettings(FileAt(ret.before, call.result.LocalPath)).settings
LoadedAfter == LoadSettings(FileAt(fs, call.result.LocalPath))

\* The indices of the list's entries that are not among the duplicates
IndicesKept(list, duplicates) ==
    {i \in 1..Len(list) : \A j \in 1..Len(duplicates) : duplicates[j] # list[i]}

\* C18: round trip: after ApplyDedup has applied a result that is not
\* should-delete, loading the local file yields in each category the
\* original local entries without the duplicates, in their original order.
C18_ApplyThenLoad ==
    (Called("ApplyDedup") /\ ~call.dryRun /\ ~call.result.SuggestDelete /\ ~LastVal.err) =>
        /\ ~LoadedAfter.err
        /\ IsSublistAt(LoadedAfter.settings.Allow, LoadedBefore.Allow,
                       IndicesKept(LoadedBefore.Allow, call.result.DuplicateAllow))
        /\ IsSublistAt(LoadedAfter.settings.Deny, LoadedBefore.Deny,
                       IndicesKept(LoadedBefore.Deny, call.result.DuplicateDeny))
        /\ IsSublistAt(LoadedAfter.settings.Ask, LoadedBefore.Ask,
                       IndicesKept(LoadedBefore.Ask, call.result.DuplicateAsk))

\* C18's case: a rewritten file that keeps a repeated entry around the
\* duplicate it lost
C18_Witness ==
    /\ Called("ApplyDedup") /\ ~call.dryRun /\ ~call.result.SuggestDelete /\ ~LastVal.err
    /\ LoadedBefore.Allow = <<"make", "git", "make">>
    /\ call.result.DuplicateAllow = <<"git">>
    /\ LoadedAfter.settings.Allow = <<"make", "make">>
    /\ fs # ret.before

\* The places in a name where the text occurs
Occurrences(name, text) ==
    {i \in 1..Len(name) :
        i + Len(text) - 1 <= Len(name) /\ SubSeq(name, i, i + Len(text) - 1) = text}

\* The text of a name before the first "-agent-" in it
TextBeforeAgent(name) == SubSeq(name, 1, KthOf(Occurrences(name, AgentToken), 1) - 1)

\* The name ends in ".json", holds "-agent-", and the text before the first
\* "-agent-" is not empty and is no valid session id
NamesUnknownSession(name, valid) ==
    /\ Len(name) >= 5
    /\ SubSeq(name, Len(name) - 4, Len(name)) = <<".", "j", "s", "o", "n">>
    /\ Occurrences(name, AgentToken) # {}
    /\ TextBeforeAgent(name) # <<>>
    /\ \A k \in 1..Len(valid) : valid[k] # JoinTokens(TextBeforeAgent(name))

\* The orphans of a type that a call of FindOrphans reports for a path
ReportsOf(type, path) ==
    {i \in 1..Len(LastVal) : LastVal[i].Type = type /\ LastVal[i].Path = path}

\* C19, as claimed: a file in the todos directory is reported as an orphan
\* todo if and only if its name ends in ".json", holds "-agent-" and the
\* non-empty text before the first "-agent-" is no valid session id; its
\* size is the file's size; other files and sub-directories are not reported.
C19_TodoReportedIffUnknownSession ==
    Called("FindOrphans") =>
        \A t \in TodoIds :
            /\ ReportsOf("todo", TodoP(t)) # {} <=>
                  /\ fs.todos[t].exists
                  /\ ~fs.todos[t].isDir
                  /\ NamesUnknownSession(TodoName[t], call.validSessionIDs)
            /\ \A i \in ReportsOf("todo", TodoP(t)) : LastVal[i].SizeSaved = fs.todos[t].size

\* C19, amended: a file in the todos directory is reported as an orphan todo
\* if and only if its name ends in ".json", holds "-agent-", the non-empty
\* text before the first "-agent-" is no valid session id, and the file's
\* size can be read; it is reported once, with the file's size; a file whose
\* size cannot be read, other files and sub-directories are skipped.
C19_TodoReportedIffUnknownAndReadable ==
    Called("FindOrphans") =>
        \A t \in TodoIds :
            /\ ReportsOf("todo", TodoP(t)) # {} <=>
                  /\ fs.todos[t].exists
                  /\ ~fs.todos[t].isDir
                  /\ NamesUnknownSession(TodoName[t], call.validSessionIDs)
                  /\ TodoP(t) \notin fs.denied
            /\ Cardinality(ReportsOf("todo", TodoP(t))) <= 1
            /\ \A i \in ReportsOf("todo", TodoP(t)) : LastVal[i].SizeSaved = fs.todos[t].size

\* C19's case: todo entries of every kind of name, one session known; the
\* file of the unknown session s9 is the only one reported
C19_Witness ==
    /\ Called("FindOrphans")
    /\ call.validSessionIDs = <<"s1">>
    /\ \A t \in TodoIds : fs.todos[t].exists
    /\ fs.denied = {}
    /\ LastVal = <<Orphan("todo", TodoP("t2"), 5)>>

\* C20, as claimed: a sub-directory of the file-history directory is
\* reported as an orphan if and only if its name is no valid session id, with
\* the byte total of the files below it as its size.
C20_HistoryReportedIffUnknownSession ==
    Called("FindOrphans") =>
        \A s \in HistIds :
            /\ ReportsOf("file_history", HistP(s)) # {} <=>
                  /\ fs.hist[s].exists
                  /\ fs.hist[s].isDir
                  /\ \A k \in 1..Len(call.validSessionIDs) : call.validSessionIDs[k] # s
            /\ \A i \in ReportsOf("file_history", HistP(s)) :
                  LastVal[i].SizeSaved = SumSeq(fs.hist[s].sizes)

\* C20, amended: a sub-directory of the file-history directory is reported
\* as an orphan if and only if its name is no valid session id and its size
\* can be computed; it is reported once, with the byte total of the files
\* below it; a directory whose walk fails is skipped, and a directory named
\* by a valid session id and a plain file are never reported.
C20_HistoryReportedIffUnknownAndReadable ==
    Called("FindOrphans") =>
        \A s \in HistIds :
            /\ ReportsOf("file_history", HistP(s)) # {} <=>
                  /\ fs.hist[s].exists
                  /\ fs.hist[s].isDir
                  /\ \A k \in 1..Len(call.validSessionIDs) : call.validSessionIDs[k] # s
                  /\ HistP(s) \notin fs.denied
            /\ Cardinality(ReportsOf("file_history", HistP(s))) <= 1
            /\ \A i \in ReportsOf("file_history", HistP(s)) :
                  LastVal[i].SizeSaved = SumSeq(fs.hist[s].sizes)

\* C20's case: the directory of the known session s1 and a plain file are
\* passed over, the directory of the unknown session s9 is reported with
\* the total of its two files
C20_Witness ==
    /\ Called("FindOrphans")
    /\ call.validSessionIDs = <<"s1">>
    /\ fs.hist["s1"] = HistDir(<<2, 3>>)
    /\ fs.hist["s8"] = HistFile(4)
    /\ fs.hist["s9"] = HistDir(<<2, 3>>)
    /\ LastVal = <<Orphan("file_history", HistP("s9"), 5)>>

\* The orphans phase is between its detection and its cleanup and no other
\* process has changed the filesystem since: fs is what the detection saw
JustDetected(ph) ==
    IsCli /\ phase = ph /\ pc \in {"prompt", "open"} /\ loc.env = 0

\* The places of the reports of a path among the orphans of cleanOrphans
FoundAt(type, path) ==
    {i \in 1..Len(loc.orphans) : loc.orphans[i].Type = type /\ loc.orphans[i].Path = path}

\* The session ids that the scan of the projects gave
ValidSet == Range(AllSessionIDs(loc.projects))

\* C21, as claimed: a sub-directory of the session-env directory is reported
\* as an orphan if and only if it holds no entry, whatever its name.
C21_EnvReportedIffEmpty ==
    JustDetected("orphans") =>
        \A s \in EnvIds :
            FoundAt("session_env", EnvP(s)) # {} <=>
                (fs.env[s].exists /\ fs.env[s].entries = 0)

\* C21, amended: a sub-directory of the session-env directory is reported as
\* an orphan if and only if it can be listed and holds no entry, whether or
\* not its name is a valid session id; it is reported once with size 0; a
\* directory that has content is never reported, and one that cannot be
\* listed is skipped.
C21_EnvReportedIffEmptyAndReadable ==
    JustDetected("orphans") =>
        \A s \in EnvIds :
            /\ FoundAt("session_env", EnvP(s)) # {} <=>
                  /\ fs.env[s].exists
                  /\ fs.env[s].entries = 0
                  /\ EnvP(s) \notin fs.denied
            /\ Cardinality(FoundAt("session_env", EnvP(s))) <= 1
            /\ \A i \in FoundAt("session_env", EnvP(s)) : loc.orphans[i].SizeSaved = 0
            /\ fs.env[s].entries > 0 => FoundAt("session_env", EnvP(s)) = {}

\* C21's case: the empty directory of the valid session s1 is reported, the
\* directory of the unknown session s9, which has content, is not
C21_Witness ==
    /\ JustDetected("orphans")
    /\ "s1" \in ValidSet /\ "s9" \notin ValidSet
    /\ fs.env["s1"].exists /\ fs.env["s1"].entries = 0
    /\ fs.env["s9"].exists /\ fs.env["s9"].entries = 1
    /\ FoundAt("session_env", EnvP("s1")) # {}
    /\ FoundAt("session_env", EnvP("s9")) = {}

\* C22: orphan cleanup never removes a session-env directory that has
\* content: when the cleanup of clean orphans removes a session-env
\* directory, the directory holds no entry at that moment, also when entries
\* were added to it while the prompt was waiting.
C22_EnvRemovedOnlyWhileEmpty ==
    [][(IsCli /\ phase = "orphans" /\ pc = "apply") =>
          \A s \in EnvIds :
             (fs.env[s].exists /\ ~fs'.env[s].exists) => fs.env[s].entries = 0]_vars

\* The session ids carried by the records of the session files under the
\* projects directory
CarriedIds(f) ==
    {f.store[p].files[i].lines[j].id :
        <<p, i, j>> \in {<<p, i, j>> \in EncodedNames \X (1..2) \X (1..3) :
                            /\ f.store[p].exists
                            /\ i <= Len(f.store[p].files)
                            /\ j <= Len(f.store[p].files[i].lines)
                            /\ f.store[p].files[i].lines[j].kind = "rec"}} \ {""}

\* The todo entries whose names carry the session id S
TodosOf(S) == {t \in TodoIds : extractSessionIDFromTodoFilename(TodoName[t]) = S}

\* C23: orphan detection never flags data that is still in use: every
\* session id carried by a record of a session file under the projects
\* directory is in the valid set that clean orphans builds from the scan, so
\* no todo file and no file-history directory of that session is reported.
C23_SessionsInUseAreValid ==
    JustDetected("orphans") =>
        \A S \in CarriedIds(fs) :
            /\ S \in ValidSet
            /\ \A t \in TodosOf(S) : FoundAt("todo", TodoP(t)) = {}
            /\ FoundAt("file_history", HistP(S)) = {}

\* The names of the projects of a list
NamesOf(projects) == {projects[i].EncodedName : i \in 1..Len(projects)}

\* The scanned projects that are not in the stale list, in scan order
KeptOf(l) == SelectSeq(l.projects, LAMBDA p : p.EncodedName \notin NamesOf(l.stale))

\* clean projects has returned after a confirmed Apply in which no removal failed
ProjectsApplied ==
    /\ IsCli /\ phase = "projects" /\ pc = "done" /\ loc.confirmed
    /\ \A i \in 1..Len(ops) : ops[i].ok

\* C24: Apply acts on exactly what the preview showed: after a confirmed
\* clean projects in which no removal fails, the storage directories of the
\* projects in the preview's Changes are gone and the program removed no
\* other; every scanned project is in exactly one of Changes and Kept; the
\* program never touches the storage directory of a project in Kept, which
\* still exists with its content unless another process removed it.
C24_ApplyMatchesPreview ==
    /\ [](ProjectsApplied =>
            /\ loc.preview.Changes = ChangesOf(loc.stale, "DELETE")
            /\ loc.preview.Kept = ChangesOf(KeptOf(loc), "")
            /\ Len(loc.preview.Changes) + Len(loc.preview.Kept) = Len(loc.projects)
            /\ \A i \in 1..Len(loc.stale) : \E j \in 1..Len(loc.projects) :
                  loc.projects[j] = loc.stale[i]
            /\ \A i, j \in 1..Len(loc.projects) :
                  loc.projects[i].EncodedName = loc.projects[j].EncodedName => i = j
            /\ \A p \in NamesOf(loc.stale) : ~fs.store[p].exists
            /\ {ops[i].path : i \in Mutations("projects")} \subseteq
                  {StoreP(p) : p \in NamesOf(loc.stale)}
            /\ loc.env = 0 =>
                  /\ {ops[i].path : i \in Mutations("projects")} =
                        {StoreP(p) : p \in NamesOf(loc.stale)}
                  /\ \A p \in NamesOf(KeptOf(loc)) : fs.store[p].exists)
    /\ [][(IsCli /\ phase = "projects" /\ ProgramStep) =>
             \A p \in EncodedNames :
                fs'.store[p] # fs.store[p] => (pc = "apply" /\ p \in NamesOf(loc.stale))]_vars

\* C24's case: of two scanned projects the stale one was shown under Changes
\* and removed, the other was shown under Kept and is still there
C24_Witness ==
    /\ ProjectsApplied
    /\ Len(loc.projects) = 2
    /\ Len(loc.preview.Changes) = 1 /\ Len(loc.preview.Kept) = 1
    /\ Mutations("projects") # {}
    /\ \E p \in NamesOf(KeptOf(loc)) : fs.store[p].exists /\ fs.store[p].files # <<>>

\* The lines of the file given to ParseSessionFile
GivenLines == fs.store[call.path[2]].files[1].lines

\* The first line at which the scan of the lines ends, 0 when it reaches the
\* end of the file: a line for which stop holds
FirstWhere(lines, stop(_)) ==
    LET S == {i \in 1..Len(lines) : stop(lines[i])}
    IN  IF S = {} THEN 0 ELSE KthOf(S, 1)

\* What the claim lets ParseSessionFile return when line d decides
DecidedBy(lines, d, result) ==
    IF Len(lines) = 0
    THEN result.err = "none" /\ result.info.IsEmpty /\ result.info.CWD = ""
    ELSE IF d = 0 THEN result.err = "ErrNoCWD"
    ELSE IF lines[d].kind = "bad" THEN result.err = "parse"
    ELSE /\ result.err = "none"
         /\ ~result.info.IsEmpty
         /\ result.info.ID = lines[d].id
         /\ result.info.CWD = lines[d].cwd
         /\ result.info.Timestamp = lines[d].ts

\* C25, as claimed: a zero-byte file gives an empty-file record; otherwise
\* the first line that is no JSON or has a non-empty cwd decides: the former
\* fails the call with a parse error, the latter supplies id, cwd and
\* timestamp, and ErrNoCWD is the result when no line decides.
C25_FirstDecisiveLine ==
    Called("ParseSessionFile") =>
        DecidedBy(GivenLines,
                  FirstWhere(GivenLines, LAMBDA l : l.kind = "bad" \/ l.cwd # ""),
                  LastVal)

\* C25, amended: as claimed, but a line longer than the scanner's buffer,
\* met before any line with a non-empty cwd, also ends the scan: the call
\* fails with the scanner's error, whatever the line holds.
C25_FirstDecisiveOrLongLine ==
    Called("ParseSessionFile") =>
        LET d == FirstWhere(GivenLines,
                            LAMBDA l : l.kind \in {"bad", "long"} \/ l.cwd # "")
        IN  IF d # 0 /\ GivenLines[d].kind = "long" THEN LastVal.err = "scan"
            ELSE DecidedBy(GivenLines, d, LastVal)

\* C25's case: an empty line and a record without cwd are passed over, the
\* record of /w1 supplies the result, the malformed line after it is not read
C25_Witness ==
    /\ Called("ParseSessionFile")
    /\ GivenLines = <<Rec("", "s1", 1), Rec("/w1", "s1", 2), Bad>>
    /\ LastVal.err = "none"
    /\ LastVal.info.CWD = "/w1" /\ LastVal.info.ID = "s1" /\ LastVal.info.Timestamp = 2

\* The line that decides the parse of a session file, 0 when none does
DecisiveLine(file) ==
    FirstWhere(file.lines, LAMBDA l : l.kind \in {"bad", "long"} \/ l.cwd # "")

\* The session file parses and yields a working directory
YieldsCwd(file) ==
    DecisiveLine(file) # 0 /\ file.lines[DecisiveLine(file)].kind = "rec"

\* The places of the files of a storage directory that yield a working directory
Yielding(files) == {i \in 1..Len(files) : YieldsCwd(files[i])}

\* The storage directories that exist, in the order of the listing
ListedDirs == SelectSeq(ProjectOrder, LAMBDA p : fs.store[p].exists)

\* C26: for every project directory the record built by ScanProjects has as
\* its actual path the cwd of the first session file, in listing order, that
\* is not empty and parses with a non-empty cwd, and an empty actual path if
\* and only if there is no such file; a file that fails to parse ends neither
\* the scan of its project nor that of the others.
C26_ActualPathFromFirstYieldingFile ==
    Called("ScanProjects") =>
        /\ ~LastVal.err
        /\ Len(LastVal.projects) = Len(ListedDirs)
        /\ \A k \in 1..Len(ListedDirs) :
              LET project == LastVal.projects[k]
                  files == fs.store[ListedDirs[k]].files
                  first == files[KthOf(Yielding(files), 1)]
              IN  /\ project.EncodedName = ListedDirs[k]
                  /\ project.ActualPath = "" <=> Yielding(files) = {}
                  /\ Yielding(files) # {} =>
                        project.ActualPath = first.lines[DecisiveLine(first)].cwd

\* C26's case: the first file fails to parse and is skipped, the second
\* yields /w2, the third yields /w1; the project after it is scanned too
C26_Witness ==
    /\ Called("ScanProjects")
    /\ Len(LastVal.projects) = 2
    /\ Len(fs.store["pa"].files) = 3
    /\ fs.store["pa"].files[1].lines = <<Bad>>
    /\ fs.store["pa"].files[2].lines = <<Rec("/w2", "s1", 2)>>
    /\ fs.store["pa"].files[3].lines = <<Rec("/w1", "s1", 1)>>
    /\ LastVal.projects[1].ActualPath = "/w2"
    /\ LastVal.projects[2].ActualPath = "/w2"

\* C27: in every project record produced by ScanProjects the session ids
\* hold no identifier twice and no empty identifier, whatever the session
\* files contain.
C27_SessionIDsAreASet ==
    Called("ScanProjects") =>
        \A k \in 1..Len(LastVal.projects) :
            LET ids == LastVal.projects[k].SessionIDs
            IN  /\ \A i, j \in 1..Len(ids) : ids[i] = ids[j] => i = j
                /\ \A i \in 1..Len(ids) : ids[i] # ""

\* The orphans phase of a clean with no subcommand, right after its detection
OrphansOfCleanAll == JustDetected("orphans") /\ args.Subcommand = ""

\* C28: clean with no subcommand runs its phases in the order projects,
\* orphans, config, each from a detection of its own, and the orphans phase
\* takes the valid session ids from a scan made after the removals of the
\* projects phase: every valid id is carried by a session file that is still
\* there, so the todo files and file-history directories of the sessions
\* that only a removed project carried are reported in the same invocation.
C28_PhasesInOrderOnFreshScan ==
    /\ [][(IsCli /\ phase' # phase) =>
             /\ args.Subcommand = ""
             /\ <<phase, phase'>> \in {<<"projects", "orphans">>, <<"orphans", "config">>}
             /\ pc' = "detect"
             /\ loc' = EmptyLoc]_vars
    /\ [](OrphansOfCleanAll =>
             /\ ValidSet \subseteq CarriedIds(fs)
             /\ \A t \in TodoIds :
                   (/\ fs.todos[t].exists /\ ~fs.todos[t].isDir
                    /\ t \notin TodosOf("")
                    /\ \A S \in CarriedIds(fs) : t \notin TodosOf(S))
                       => FoundAt("todo", TodoP(t)) # {}
             /\ \A s \in HistIds :
                   (fs.hist[s].exists /\ fs.hist[s].isDir /\ s \notin CarriedIds(fs))
                       => FoundAt("file_history", HistP(s)) # {})

\* C28's case: the projects phase removed the stale project that alone
\* carried s9, and the orphans phase of the same invocation reports the todo
\* file and the file-history directory of s9, but not those of s1
C28_Witness ==
    /\ OrphansOfCleanAll
    /\ \E i \in Mutations("projects") : ops[i].path = StoreP("pb")
    /\ "s1" \in ValidSet /\ "s9" \notin ValidSet
    /\ FoundAt("todo", TodoP("t2")) # {}
    /\ FoundAt("file_history", HistP("s9")) # {}
    /\ FoundAt("todo", TodoP("t1")) = {}

\* A step of the Apply of clean config, or of a direct call of ApplyDedup
DedupStep ==
    \/ IsCli /\ phase = "config" /\ pc = "apply"
    \/ call.fn = "ApplyDedup" /\ pc = "lib"

\* C29: clean config never destroys the non-permission content of a local
\* settings file: a rewrite by ApplyDedup leaves every field other than the
\* permission lists as it was, and a file is deleted only when it holds
\* nothing but permission entries that are all in the global settings.
C29_OtherContentPreserved ==
    [][DedupStep =>
          \A w \in WorkPaths :
             LET before == fs.lset[w]
                 after == fs'.lset[w]
                 global == LoadSettings(fs.gset).settings
             IN  (before.state = "ok" /\ after # before) =>
                    /\ after.state = "ok" => after.extra = before.extra
                    /\ after.state = "absent" =>
                          (~before.extra /\ IsEmpty(Diff(before.perm, global)))]_vars

\* C30: each confirmation prompt consumes exactly one line of the input: the
\* answer to a prompt takes from the standard input the first line and
\* leaves the rest for the prompts that follow, so that the k-th prompt of
\* an invocation is answered by the k-th line.
C30_PromptConsumesOneLine ==
    [][(IsCli /\ pc = "prompt" /\ ProgramStep) =>
          stdin' = SubSeq(stdin, ReadString(stdin, NL).used + 1, Len(stdin))]_vars

====
